---- MODULE Spec2Model ----
(***************************************************************************)
(* State-machine model of the passkey second factor of SecureVote:        *)
(*   - PasskeyAuthenticator (utils/passkeyAuth): checkPasskeySupport,     *)
(*     registerPasskey, authenticateWithPasskey, hasPasskeyRegistered,    *)
(*     removePasskey, over the origin's localStorage;                     *)
(*   - the login page (pages/Index): handleLogin / handlePasskeyAuth;     *)
(*   - the registration pages (RegisterVoter, RegisterAdmin):             *)
(*     handleSubmit / handlePasskeySetup.                                 *)
(* One action is one run-to-completion segment of the event loop: the     *)
(* code between two suspensions on a platform request (capability query,  *)
(* ceremony, backend call, timer).  Awaits of already settled promises    *)
(* continue in the same microtask checkpoint and are part of the segment. *)
(***************************************************************************)
EXTENDS Integers, Sequences, FiniteSets, TLC

\* ---------------------------------------------------------------- bounds
\* number of operations (calls, removals, login attempts, form submissions)
\* started in a run
MaxOps == 3
\* seconds left on the voting dashboard's countdown in the first state
CountdownStart == 2
\* number of simulated tally updates in a run
MaxRounds == 1
\* number of fetchResults runs of the live results panel in a run
MaxFetches == 3
\* number of ballots the backend receives per election
MaxBallots == 1
\* number of handleVotingControl runs of the admin dashboard in a run
MaxControls == 3

UserIds == {"u1", "u2"}
Emails == {"a@x.com", "b@x.com"}
CredIds == {"cred-1", "cred-2"}
\* call frames of the authenticator that may be pending at the same time;
\* frame 0 belongs to the mounted page (login or registration), the others
\* to direct callers
ClientSlots == {1, 2}
AllSlots == {0} \cup ClientSlots

VARIABLES
    embedded,      \* window !== window.top
    hasPKC,        \* window.PublicKeyCredential is defined
    storage,       \* localStorage of the origin: a set of <<key, value>>
    clock,         \* new Date()
    random,        \* values drawn from crypto.getRandomValues so far
    ops,           \* operations started so far
    call,          \* the authenticator's call frames
    route,         \* the page the router shows
    login,         \* the login page: its React state and its handler
    reg,           \* the registration page: its React state and its handler
    bio,           \* the biometric authenticator's call
    dash,          \* the voting dashboard: its React state and handleVote
    live,          \* the live results panel: its React state, its poller,
                   \* its fetches in flight and the backend's ballots
    admin          \* the admin dashboard: its votingStatus, its runs of
                   \* handleVotingControl and the backend's elections

vars == <<embedded, hasPKC, storage, clock, random, ops, call, route, login,
          reg, bio, dash, live, admin>>

\* ------------------------------------------------------ user-facing text
\* A message is the sequence of its words; includes() is containment of a
\* contiguous run of words.
includes(msg, part) ==
    \E i \in 1..(Len(msg) - Len(part) + 1) :
        \A j \in 1..Len(part) : msg[i + j - 1] = part[j]

RegNotSupportedEnv ==
    <<"Passkey", "authentication", "is", "not", "supported", "in", "this",
      "environment.", "Please", "try", "opening", "the", "app", "in", "a",
      "new", "tab.">>
RegNotSupportedDevice ==
    <<"Passkey", "authentication", "is", "not", "supported", "on", "this",
      "device">>
RegCancelled ==
    <<"Passkey", "registration", "was", "cancelled", "or", "denied.",
      "Please", "try", "again", "and", "allow", "the", "biometric",
      "authentication", "when", "prompted.">>
RegAlreadyRegistered ==
    <<"A", "passkey", "is", "already", "registered", "for", "this",
      "account">>
RegNotAvailableEnv ==
    <<"Passkey", "authentication", "is", "not", "available", "in", "this",
      "environment.", "Please", "try", "opening", "the", "app", "in", "a",
      "new", "browser", "tab.">>
RegGeneric ==
    <<"Failed", "to", "register", "passkey.", "Please", "try", "again",
      "or", "use", "a", "different", "device.">>

AuthNotSupportedEnv ==
    <<"Passkey", "authentication", "is", "not", "supported", "in", "this",
      "environment">>
AuthNoPasskeyFound ==
    <<"No", "passkey", "found", "for", "this", "account.", "Please",
      "register", "a", "passkey", "first.">>
AuthNotSupportedDevice ==
    <<"Passkey", "authentication", "is", "not", "supported", "on", "this",
      "device">>
AuthCancelled ==
    <<"Passkey", "authentication", "was", "cancelled", "or", "failed.",
      "Please", "try", "again.">>
AuthNoValidPasskey ==
    <<"No", "valid", "passkey", "found", "for", "this", "account">>
AuthGeneric ==
    <<"Passkey", "authentication", "failed.", "Please", "try", "again.">>

\* -------------------------------------------------------- thrown values
\* A thrown value as the catch blocks see it: its name and its message
\* ("" and <<>> stand for undefined).
Thrown(n, m) == [name |-> n, message |-> m]
PlainMessage == <<"The", "operation", "failed">>
PolicyMessage ==
    <<"The", "publickey-credentials-create", "feature", "is", "not",
      "enabled", "in", "this", "document">>
\* what a ceremony (credentials.create / credentials.get) can reject with
CeremonyErrors ==
    { Thrown(n, m) : n \in {"NotSupportedError", "NotAllowedError",
                            "InvalidStateError", "SecurityError"},
                     m \in {PlainMessage, PolicyMessage} }
    \cup { Thrown("", <<>>) }
QuotaExceeded == Thrown("QuotaExceededError", PlainMessage)
SyntaxError == Thrown("SyntaxError", <<"Unexpected", "end", "of", "JSON", "input">>)
NoCredentialCreated == Thrown("Error", <<"Failed", "to", "create", "passkey">>)
NoCredentialReturned == Thrown("Error", <<"Passkey", "authentication", "failed">>)
NoThrow == Thrown("-", <<>>)

\* outcome of a ceremony: a credential, null, or a rejection
Resolved(id) == [kind |-> "credential", id |-> id, error |-> NoThrow]
ResolvedNull == [kind |-> "null", id |-> "", error |-> NoThrow]
Rejected(e) == [kind |-> "throw", id |-> "", error |-> e]
CeremonyOutcomes ==
    { Resolved(id) : id \in CredIds } \cup {ResolvedNull}
    \cup { Rejected(e) : e \in CeremonyErrors }

\* isUserVerifyingPlatformAuthenticatorAvailable(): resolves true or false,
\* or rejects
QueryOutcomes == {"true", "false", "throw"}

\* ---------------------------------------------------------- localStorage
\* variant whose key leaves the userId out
storageKey_noUserId(userId) == <<"passkey_", "">>

storageKey(userId) == <<"passkey_", userId>>

NoItem == [found |-> FALSE, val |-> <<>>]
getItem(store, k) ==
    IF \E e \in store : e[1] = k
    THEN [found |-> TRUE, val |-> (CHOOSE e \in store : e[1] = k)[2]]
    ELSE NoItem
setItem(store, k, v) == {e \in store : e[1] # k} \cup {<<k, v>>}
removeItem(store, k) == {e \in store : e[1] # k}
\* !item : null and the empty string are falsy
falsy(item) == ~item.found \/ item.val = <<>>

\* ------------------------------------------------------------------ JSON
toISOString(t) == <<"ISO", t>>
NoInfo == [id |-> "", userEmail |-> "", userId |-> "", createdAt |-> <<>>]
JSONstringify(info) ==
    <<"{", info.id, info.userEmail, info.userId, info.createdAt, "}">>
JSONparse(s) ==
    IF Len(s) = 6 /\ s[1] = "{" /\ s[6] = "}"
    THEN [ok |-> TRUE,
          value |-> [id |-> s[2], userEmail |-> s[3], userId |-> s[4],
                     createdAt |-> s[5]]]
    ELSE [ok |-> FALSE, value |-> NoInfo]

\* ------------------------------------------------- platform conversions
\* new TextEncoder().encode(str): the UTF-8 bytes of the string
TextEncoderEncode(str) == <<"utf8", str>>
\* variant that leaves the new Uint8Array(32) as it is created
getRandomValues_notCalled(rnd) == <<"zeros">>

\* crypto.getRandomValues(new Uint8Array(32)) as the draw after rnd earlier
\* ones: the generator does not repeat a 32-byte output
getRandomValues(rnd) == <<"random", rnd + 1>>

\* --------------------------------------------------------- result values
NoResult == [success |-> FALSE, error |-> <<>>, credentialId |-> "",
             credential |-> ""]
Failure(msg) == [success |-> FALSE, error |-> msg, credentialId |-> "",
                 credential |-> ""]
RegistrationSuccess(id) == [success |-> TRUE, error |-> <<>>,
                            credentialId |-> id, credential |-> ""]
AuthSuccess(cred) == [success |-> TRUE, error |-> <<>>, credentialId |-> "",
                      credential |-> cred]

\* ------------------------------------------------------------ call frame
IdleCall ==
    [op |-> "none", pc |-> "idle", userEmail |-> "", userId |-> "",
     query |-> "-", supported |-> "unset",
     lookup |-> "-", allowCredentials |-> <<>>,
     challenge |-> <<>>,
     outcome |-> "-", thrown |-> "-", res |-> NoResult,
     nQuery |-> 0, nCreate |-> 0, nGet |-> 0, nWrite |-> 0]

NewCall(op, userEmail, userId) ==
    [IdleCall EXCEPT !.op = op, !.pc = "awaitSupport",
                     !.userEmail = userEmail, !.userId = userId]

\* a call returns: its locals (the challenge) are gone, the frame keeps
\* what the call did and its result
Return(fr, result) ==
    [fr EXCEPT !.pc = "done", !.res = result, !.challenge = <<>>]

\* --------------------------------------------------- checkPasskeySupport
\* q is the outcome of the capability query, "-" while it has not settled.
\* The result is "true" or "false", or "pending" when the function has
\* issued the query and is suspended on it.
\* variant without the embedded-frame check
checkPasskeySupport_noFrameCheck(emb, pkc, q) ==
    IF ~pkc THEN "false"
    ELSE IF q = "-" THEN "pending"
    ELSE IF q = "throw" THEN "false"
    ELSE q

\* variant that looks at the frame only after the capability query
checkPasskeySupport_lateFrameCheck(emb, pkc, q) ==
    IF ~pkc THEN "false"
    ELSE IF q = "-" THEN "pending"
    ELSE IF emb THEN "false"
    ELSE IF q = "throw" THEN "false"
    ELSE q

checkPasskeySupport(emb, pkc, q) ==
    IF emb THEN "false"
    ELSE IF ~pkc THEN "false"
    ELSE IF q = "-" THEN "pending"
    ELSE IF q = "throw" THEN "false"
    ELSE q

\* ------------------------------------------------------- registerPasskey
\* variant that looks at the message before the error names
registerCatch_messageFirst(error) ==
    IF error.message # <<>>
       /\ includes(error.message, <<"publickey-credentials-create">>)
    THEN Failure(RegNotAvailableEnv)
    ELSE IF error.name = "NotSupportedError" THEN Failure(RegNotSupportedDevice)
    ELSE IF error.name = "NotAllowedError" THEN Failure(RegCancelled)
    ELSE IF error.name = "InvalidStateError" THEN Failure(RegAlreadyRegistered)
    ELSE Failure(RegGeneric)

registerCatch(error) ==
    IF error.name = "NotSupportedError" THEN Failure(RegNotSupportedDevice)
    ELSE IF error.name = "NotAllowedError" THEN Failure(RegCancelled)
    ELSE IF error.name = "InvalidStateError" THEN Failure(RegAlreadyRegistered)
    ELSE IF error.message # <<>>
            /\ includes(error.message, <<"publickey-credentials-create">>)
         THEN Failure(RegNotAvailableEnv)
    ELSE Failure(RegGeneric)

\* variant that starts the ceremony whatever the support check said
registerAfterSupport_noGate(fr, supported, store, rnd) ==
    [frame |-> [fr EXCEPT !.supported = IF supported THEN "true" ELSE "false",
                          !.challenge = getRandomValues(rnd),
                          !.pc = "awaitCreate", !.nCreate = @ + 1],
     store |-> store, rnd |-> rnd + 1]

\* after `await this.checkPasskeySupport()`
registerAfterSupport(fr, supported, store, rnd) ==
    IF ~supported
    THEN [frame |-> Return([fr EXCEPT !.supported = "false"],
                           Failure(RegNotSupportedEnv)),
          store |-> store, rnd |-> rnd]
    ELSE [frame |-> [fr EXCEPT !.supported = "true",
                               !.challenge = getRandomValues(rnd),
                               !.pc = "awaitCreate", !.nCreate = @ + 1],
          store |-> store, rnd |-> rnd + 1]

\* variant with the e-mail address and the user id in each other's place
credentialInfo_swapped(id, userEmail, userId, now) ==
    [id |-> id, userEmail |-> userId, userId |-> userEmail,
     createdAt |-> toISOString(now)]

credentialInfo(id, userEmail, userId, now) ==
    [id |-> id, userEmail |-> userEmail, userId |-> userId,
     createdAt |-> toISOString(now)]

\* variant that stores the record before looking at the credential
registerAfterCreate_writeFirst(fr, out, writeOk, store, now) ==
    LET f == [fr EXCEPT !.outcome = out.kind, !.thrown = out.error.name]
        written == setItem(store, storageKey(fr.userId),
                       JSONstringify(credentialInfo(out.id, fr.userEmail,
                                                    fr.userId, now)))
    IN IF out.kind = "throw"
       THEN [frame |-> Return(f, registerCatch(out.error)), store |-> store]
       ELSE IF out.kind = "null"
       THEN [frame |-> Return([f EXCEPT !.thrown = NoCredentialCreated.name],
                              registerCatch(NoCredentialCreated)),
             store |-> written]
       ELSE IF ~writeOk
       THEN [frame |-> Return([f EXCEPT !.thrown = QuotaExceeded.name],
                              registerCatch(QuotaExceeded)),
             store |-> store]
       ELSE [frame |-> Return([f EXCEPT !.nWrite = @ + 1],
                              RegistrationSuccess(out.id)),
             store |-> written]

\* variant that keys the record by the e-mail address
registerAfterCreate_emailKey(fr, out, writeOk, store, now) ==
    LET f == [fr EXCEPT !.outcome = out.kind, !.thrown = out.error.name] IN
    IF out.kind = "throw"
    THEN [frame |-> Return(f, registerCatch(out.error)), store |-> store]
    ELSE IF out.kind = "null"
    THEN [frame |-> Return([f EXCEPT !.thrown = NoCredentialCreated.name],
                           registerCatch(NoCredentialCreated)),
          store |-> store]
    ELSE IF ~writeOk
    THEN [frame |-> Return([f EXCEPT !.thrown = QuotaExceeded.name],
                           registerCatch(QuotaExceeded)),
          store |-> store]
    ELSE [frame |-> Return([f EXCEPT !.nWrite = @ + 1],
                           RegistrationSuccess(out.id)),
          store |-> setItem(store, storageKey(fr.userEmail),
                       JSONstringify(credentialInfo(out.id, fr.userEmail,
                                                    fr.userId, now)))]

\* variant that keeps the record a user already has
registerAfterCreate_keepsExisting(fr, out, writeOk, store, now) ==
    LET f == [fr EXCEPT !.outcome = out.kind, !.thrown = out.error.name] IN
    IF out.kind = "throw"
    THEN [frame |-> Return(f, registerCatch(out.error)), store |-> store]
    ELSE IF out.kind = "null"
    THEN [frame |-> Return([f EXCEPT !.thrown = NoCredentialCreated.name],
                           registerCatch(NoCredentialCreated)),
          store |-> store]
    ELSE IF ~writeOk
    THEN [frame |-> Return([f EXCEPT !.thrown = QuotaExceeded.name],
                           registerCatch(QuotaExceeded)),
          store |-> store]
    ELSE IF getItem(store, storageKey(fr.userId)).found
    THEN [frame |-> Return(f, RegistrationSuccess(out.id)), store |-> store]
    ELSE [frame |-> Return([f EXCEPT !.nWrite = @ + 1],
                           RegistrationSuccess(out.id)),
          store |-> setItem(store, storageKey(fr.userId),
                       JSONstringify(credentialInfo(out.id, fr.userEmail,
                                                    fr.userId, now)))]

\* after `await navigator.credentials.create(...)`: the new frame and the
\* new localStorage
registerAfterCreate(fr, out, writeOk, store, now) ==
    LET f == [fr EXCEPT !.outcome = out.kind, !.thrown = out.error.name] IN
    IF out.kind = "throw"
    THEN [frame |-> Return(f, registerCatch(out.error)), store |-> store]
    ELSE IF out.kind = "null"
    THEN [frame |-> Return([f EXCEPT !.thrown = NoCredentialCreated.name],
                           registerCatch(NoCredentialCreated)),
          store |-> store]
    ELSE IF ~writeOk
    THEN [frame |-> Return([f EXCEPT !.thrown = QuotaExceeded.name],
                           registerCatch(QuotaExceeded)),
          store |-> store]
    ELSE [frame |-> Return([f EXCEPT !.nWrite = @ + 1],
                           RegistrationSuccess(out.id)),
          store |-> setItem(store, storageKey(fr.userId),
                       JSONstringify(credentialInfo(out.id, fr.userEmail,
                                                    fr.userId, now)))]

\* ----------------------------------------------- authenticateWithPasskey
\* variant that passes the platform's own text on for unclassified errors
authenticateCatch_raw(error) ==
    IF error.name = "NotSupportedError" THEN Failure(AuthNotSupportedDevice)
    ELSE IF error.name = "NotAllowedError" THEN Failure(AuthCancelled)
    ELSE IF error.name = "InvalidStateError" THEN Failure(AuthNoValidPasskey)
    ELSE Failure(error.message)

\* variant without the InvalidStateError branch
authenticateCatch_noInvalidState(error) ==
    IF error.name = "NotSupportedError" THEN Failure(AuthNotSupportedDevice)
    ELSE IF error.name = "NotAllowedError" THEN Failure(AuthCancelled)
    ELSE Failure(AuthGeneric)

authenticateCatch(error) ==
    IF error.name = "NotSupportedError" THEN Failure(AuthNotSupportedDevice)
    ELSE IF error.name = "NotAllowedError" THEN Failure(AuthCancelled)
    ELSE IF error.name = "InvalidStateError" THEN Failure(AuthNoValidPasskey)
    ELSE Failure(AuthGeneric)

\* variant that leaves the choice of the credential to the authenticator
authenticateAfterSupport_anyCredential(fr, supported, store, rnd) ==
    IF ~supported
    THEN [frame |-> Return([fr EXCEPT !.supported = "false"],
                           Failure(AuthNotSupportedEnv)),
          store |-> store, rnd |-> rnd]
    ELSE LET storedCredential == getItem(store, storageKey(fr.userId))
             f == [fr EXCEPT !.supported = "true",
                             !.lookup = IF falsy(storedCredential)
                                        THEN "none" ELSE "found"]
         IN IF falsy(storedCredential)
            THEN [frame |-> Return(f, Failure(AuthNoPasskeyFound)),
                  store |-> store, rnd |-> rnd]
            ELSE IF ~JSONparse(storedCredential.val).ok
            THEN [frame |-> Return([f EXCEPT !.thrown = SyntaxError.name],
                                   authenticateCatch(SyntaxError)),
                  store |-> store, rnd |-> rnd]
            ELSE [frame |-> [f EXCEPT !.pc = "awaitGet", !.nGet = @ + 1,
                                !.challenge = getRandomValues(rnd),
                                !.allowCredentials = <<>>],
                  store |-> store, rnd |-> rnd + 1]

\* variant that parses the stored value before the `if (!storedCredential)`
\* check (JSON.parse(null) is null, and reading its id throws a TypeError)
authenticateAfterSupport_parseFirst(fr, supported, store, rnd) ==
    IF ~supported
    THEN [frame |-> Return([fr EXCEPT !.supported = "false"],
                           Failure(AuthNotSupportedEnv)),
          store |-> store, rnd |-> rnd]
    ELSE LET storedCredential == getItem(store, storageKey(fr.userId))
             f == [fr EXCEPT !.supported = "true",
                             !.lookup = IF falsy(storedCredential)
                                        THEN "none" ELSE "found"]
         IN IF falsy(storedCredential)
            THEN [frame |-> Return([f EXCEPT !.thrown = "TypeError"],
                                   authenticateCatch(
                                       Thrown("TypeError", PlainMessage))),
                  store |-> store, rnd |-> rnd]
            ELSE IF ~JSONparse(storedCredential.val).ok
            THEN [frame |-> Return([f EXCEPT !.thrown = SyntaxError.name],
                                   authenticateCatch(SyntaxError)),
                  store |-> store, rnd |-> rnd]
            ELSE [frame |-> [f EXCEPT !.pc = "awaitGet", !.nGet = @ + 1,
                                !.challenge = getRandomValues(rnd),
                                !.allowCredentials =
                                    <<TextEncoderEncode(
                                        JSONparse(storedCredential.val).value.id)>>],
                  store |-> store, rnd |-> rnd + 1]

\* variant without the `if (!storedCredential)` return
authenticateAfterSupport_noLookupCheck(fr, supported, store, rnd) ==
    IF ~supported
    THEN [frame |-> Return([fr EXCEPT !.supported = "false"],
                           Failure(AuthNotSupportedEnv)),
          store |-> store, rnd |-> rnd]
    ELSE LET storedCredential == getItem(store, storageKey(fr.userId))
             f == [fr EXCEPT !.supported = "true",
                             !.lookup = IF falsy(storedCredential)
                                        THEN "none" ELSE "found"]
         IN IF ~JSONparse(storedCredential.val).ok
            THEN [frame |-> Return([f EXCEPT !.thrown = SyntaxError.name],
                                   authenticateCatch(SyntaxError)),
                  store |-> store, rnd |-> rnd]
            ELSE [frame |-> [f EXCEPT !.pc = "awaitGet", !.nGet = @ + 1,
                                !.challenge = getRandomValues(rnd),
                                !.allowCredentials =
                                    <<TextEncoderEncode(
                                        JSONparse(storedCredential.val).value.id)>>],
                  store |-> store, rnd |-> rnd + 1]

\* after `await this.checkPasskeySupport()`: the lookup, the parse and the
\* start of the assertion ceremony; the new frame and the new localStorage
authenticateAfterSupport(fr, supported, store, rnd) ==
    IF ~supported
    THEN [frame |-> Return([fr EXCEPT !.supported = "false"],
                           Failure(AuthNotSupportedEnv)),
          store |-> store, rnd |-> rnd]
    ELSE LET storedCredential == getItem(store, storageKey(fr.userId))
             f == [fr EXCEPT !.supported = "true",
                             !.lookup = IF falsy(storedCredential)
                                        THEN "none" ELSE "found"]
         IN IF falsy(storedCredential)
            THEN [frame |-> Return(f, Failure(AuthNoPasskeyFound)),
                  store |-> store, rnd |-> rnd]
            ELSE IF ~JSONparse(storedCredential.val).ok
            THEN [frame |-> Return([f EXCEPT !.thrown = SyntaxError.name],
                                   authenticateCatch(SyntaxError)),
                  store |-> store, rnd |-> rnd]
            ELSE [frame |-> [f EXCEPT !.pc = "awaitGet", !.nGet = @ + 1,
                                !.challenge = getRandomValues(rnd),
                                !.allowCredentials =
                                    <<TextEncoderEncode(
                                        JSONparse(storedCredential.val).value.id)>>],
                  store |-> store, rnd |-> rnd + 1]

\* variant that forgets the passkey when the assertion is rejected
authenticateAfterGet_forgets(fr, out, store) ==
    LET f == [fr EXCEPT !.outcome = out.kind, !.thrown = out.error.name] IN
    IF out.kind = "throw"
    THEN [frame |-> Return(f, authenticateCatch(out.error)),
          store |-> removeItem(store, storageKey(fr.userId))]
    ELSE IF out.kind = "null"
    THEN [frame |-> Return([f EXCEPT !.thrown = NoCredentialReturned.name],
                           authenticateCatch(NoCredentialReturned)),
          store |-> store]
    ELSE [frame |-> Return(f, AuthSuccess(out.id)), store |-> store]

\* after `await navigator.credentials.get(...)`
authenticateAfterGet(fr, out, store) ==
    LET f == [fr EXCEPT !.outcome = out.kind, !.thrown = out.error.name] IN
    IF out.kind = "throw"
    THEN [frame |-> Return(f, authenticateCatch(out.error)), store |-> store]
    ELSE IF out.kind = "null"
    THEN [frame |-> Return([f EXCEPT !.thrown = NoCredentialReturned.name],
                           authenticateCatch(NoCredentialReturned)),
          store |-> store]
    ELSE [frame |-> Return(f, AuthSuccess(out.id)), store |-> store]

\* ------------------------------------ hasPasskeyRegistered, removePasskey
hasPasskeyRegistered(store, userId) ==
    ~falsy(getItem(store, storageKey(userId)))

\* variant that removes every stored passkey of the origin
removePasskey_allUsers(store, userId) == {e \in store : e[1][1] # "passkey_"}

\* variant that removes under a key without the underscore
removePasskey_wrongKey(store, userId) == removeItem(store, <<"passkey", userId>>)

removePasskey(store, userId) == removeItem(store, storageKey(userId))

\* ------------------------------------------------- authenticator actions
\* the continuation of a call once checkPasskeySupport has returned
afterSupport(fr, supported, store, rnd) ==
    IF fr.op = "register"
    THEN registerAfterSupport(fr, supported = "true", store, rnd)
    ELSE IF fr.op = "authenticate"
    THEN authenticateAfterSupport(fr, supported = "true", store, rnd)
    ELSE [frame |-> Return([fr EXCEPT !.supported = supported], NoResult),
          store |-> store, rnd |-> rnd]

\* the synchronous start of a call, up to its first real suspension
beginCall(op, userEmail, userId, emb, pkc, store, rnd) ==
    LET fr == NewCall(op, userEmail, userId)
        supported == checkPasskeySupport(emb, pkc, "-")
    IN IF supported = "pending"
       THEN [frame |-> [fr EXCEPT !.nQuery = @ + 1], store |-> store,
             rnd |-> rnd]
       ELSE afterSupport(fr, supported, store, rnd)

\* the continuation of a call once the capability query has settled
afterQuery(fr, emb, pkc, q, store, rnd) ==
    afterSupport([fr EXCEPT !.query = q], checkPasskeySupport(emb, pkc, q),
                 store, rnd)

\* a new call takes the lowest frame that is not pending
Free(c) ==
    /\ call[c].pc \in {"idle", "done"}
    /\ \A d \in ClientSlots : d < c => call[d].pc \notin {"idle", "done"}

\* a caller (settings page, registration page) invokes registerPasskey
CallRegister(c, userEmail, userId) ==
    /\ Free(c) /\ ops < MaxOps
    /\ LET r == beginCall("register", userEmail, userId, embedded, hasPKC,
                          storage, random) IN
          /\ call' = [call EXCEPT ![c] = r.frame]
          /\ storage' = r.store
          /\ random' = r.rnd
    /\ ops' = ops + 1
    /\ UNCHANGED <<admin, live, dash, bio, embedded, hasPKC, clock, route, login, reg>>

\* a caller invokes authenticateWithPasskey (which never reads userEmail:
\* the callers pass the address of the user's account)
CallAuthenticate(c, userEmail, userId) ==
    /\ Free(c) /\ ops < MaxOps
    /\ LET r == beginCall("authenticate", userEmail, userId, embedded, hasPKC,
                          storage, random) IN
          /\ call' = [call EXCEPT ![c] = r.frame]
          /\ storage' = r.store
          /\ random' = r.rnd
    /\ ops' = ops + 1
    /\ UNCHANGED <<admin, live, dash, bio, embedded, hasPKC, clock, route, login, reg>>

\* a caller invokes checkPasskeySupport
CallCheckSupport(c) ==
    /\ Free(c) /\ ops < MaxOps
    /\ LET r == beginCall("checkSupport", "", "", embedded, hasPKC, storage,
                          random) IN
          /\ call' = [call EXCEPT ![c] = r.frame]
          /\ storage' = r.store
          /\ random' = r.rnd
    /\ ops' = ops + 1
    /\ UNCHANGED <<admin, live, dash, bio, embedded, hasPKC, clock, route, login, reg>>

\* a caller invokes removePasskey
CallRemove(userId) ==
    /\ ops < MaxOps
    /\ storage' = removePasskey(storage, userId)
    /\ ops' = ops + 1
    /\ UNCHANGED <<admin, live, dash, bio, embedded, hasPKC, clock, random, call, route, login, reg>>

\* the capability query of a pending call settles
SupportSettles(c, q) ==
    /\ call[c].pc = "awaitSupport"
    /\ LET r == afterQuery(call[c], embedded, hasPKC, q, storage, random) IN
          /\ call' = [call EXCEPT ![c] = r.frame]
          /\ storage' = r.store
          /\ random' = r.rnd
    /\ UNCHANGED <<admin, live, dash, bio, embedded, hasPKC, clock, ops, route, login, reg>>

\* the creation ceremony of a pending registerPasskey settles
CreateSettles(c, out, writeOk) ==
    /\ call[c].pc = "awaitCreate"
    /\ LET r == registerAfterCreate(call[c], out, writeOk, storage, clock) IN
          /\ call' = [call EXCEPT ![c] = r.frame]
          /\ storage' = r.store
    /\ clock' = IF storage' # storage THEN clock + 1 ELSE clock
    /\ UNCHANGED <<admin, live, dash, bio, embedded, hasPKC, random, ops, route, login, reg>>

\* the assertion ceremony of a pending authenticateWithPasskey settles
GetSettles(c, out) ==
    /\ call[c].pc = "awaitGet"
    /\ LET r == authenticateAfterGet(call[c], out, storage) IN
          /\ call' = [call EXCEPT ![c] = r.frame]
          /\ storage' = r.store
    /\ UNCHANGED <<admin, live, dash, bio, embedded, hasPKC, clock, random, ops, route, login, reg>>

\* the stored value of a registered user is damaged by another writer of
\* the origin's localStorage (the store is shared and not owned by the
\* authenticator); what is left no longer parses
truncate(v) == SubSeq(v, 1, 3)
StorageDamaged(userId) ==
    /\ ops < MaxOps
    /\ LET item == getItem(storage, storageKey(userId)) IN
          /\ item.found /\ JSONparse(item.val).ok
          /\ storage' = setItem(storage, storageKey(userId), truncate(item.val))
    /\ ops' = ops + 1
    /\ UNCHANGED <<admin, live, dash, bio, embedded, hasPKC, clock, random, call, route, login, reg>>

\* ============================================================ login page
Accounts == {[id |-> "u1", email |-> "a@x.com"],
             [id |-> "u2", email |-> "b@x.com"]}
NoUser == [id |-> "", email |-> ""]

\* what the e-mail and password fields can hold when the button is pressed
EmailInputs == Emails \cup {"", " "}
PasswordInputs == {"", " ", "secret"}
trim(str) == IF str = " " THEN "" ELSE str

\* supabase.auth.signInWithPassword: resolves {error}, resolves {data.user}
\* for the account of the e-mail, or rejects
AllSignInOutcomes ==
    {[kind |-> "error", user |-> NoUser], [kind |-> "throw", user |-> NoUser]}
    \cup {[kind |-> "ok", user |-> a] : a \in Accounts}
SignInOutcomes(email) ==
    {out \in AllSignInOutcomes : out.kind = "ok" => out.user.email = email}

\* the profiles query: resolves {error}, resolves a profile whose role may
\* be null, or rejects
ProfileOutcomes ==
    {[kind |-> "error", role |-> ""], [kind |-> "throw", role |-> ""]}
    \cup {[kind |-> "ok", role |-> r] : r \in {"admin", "voter", ""}}

BiometricFailed == <<"Biometric", "authentication", "failed">>

\* useState initial values; pc is the handler's position, and pwOk, sfSteps,
\* sf and navTo record the current login attempt: whether the password
\* sign-in resolved without error, how many second-factor steps were
\* started, how the second factor ended, and where the attempt navigated
LoginInit(inIframe) ==
    [isAuthenticating |-> FALSE, authStep |-> 0, authError |-> <<>>,
     userId |-> "", isInIframe |-> inIframe, email |-> "",
     pc |-> "idle", user |-> NoUser, userRole |-> "",
     pwOk |-> FALSE, sfSteps |-> 0, sf |-> "none",
     navTo |-> ""]

\* handleLogin after `await handlePasskeyAuth(...)`: starts the profile
\* query or gives up
afterPasskeyAuth(lg, biometricSuccess) ==
    IF biometricSuccess
    THEN [lg EXCEPT !.pc = "awaitProfile"]
    ELSE [lg EXCEPT !.isAuthenticating = FALSE, !.authStep = 0, !.pc = "idle"]

\* variant whose soft-fail paths mark the second factor complete
passkeySkipped_marksComplete(lg) ==
    afterPasskeyAuth([lg EXCEPT !.sf = "skipped", !.authStep = 3], TRUE)

\* handlePasskeyAuth returning true without a ceremony
passkeySkipped(lg) ==
    afterPasskeyAuth([lg EXCEPT !.sf = "skipped"], TRUE)

\* variant that lets the login continue when the passkey result is a failure
passkeyAfterAuthenticate_softFail(lg, result) ==
    IF ~result.success
    THEN afterPasskeyAuth(
             [lg EXCEPT !.authError = IF result.error # <<>> THEN result.error
                                      ELSE BiometricFailed,
                        !.sf = "failed"], TRUE)
    ELSE afterPasskeyAuth([lg EXCEPT !.authStep = 3, !.sf = "passed"], TRUE)

\* handlePasskeyAuth after `await passkeyAuth.authenticateWithPasskey(...)`
passkeyAfterAuthenticate(lg, result) ==
    IF ~result.success
    THEN afterPasskeyAuth(
             [lg EXCEPT !.authError = IF result.error # <<>> THEN result.error
                                      ELSE BiometricFailed,
                        !.sf = "failed"], FALSE)
    ELSE afterPasskeyAuth(
             [lg EXCEPT !.authStep = 3, !.sf = "passed"], TRUE)

\* variant that asks for the passkey without looking for a registered one
passkeyAfterSupport_noHasCheck(lg, fr0, supported, emb, pkc, store, rnd) ==
    IF ~supported
    THEN [login |-> passkeySkipped(lg), frame |-> fr0, store |-> store,
          rnd |-> rnd]
    ELSE LET r == beginCall("authenticate", lg.user.email, lg.user.id,
                            emb, pkc, store, rnd)
             la == [lg EXCEPT !.sfSteps = @ + 2, !.pc = "awaitAuth"]
         IN [login |-> IF r.frame.pc = "done"
                       THEN passkeyAfterAuthenticate(la, r.frame.res)
                       ELSE la,
             frame |-> r.frame, store |-> r.store, rnd |-> r.rnd]

\* handlePasskeyAuth after `await passkeyAuth.checkPasskeySupport()`:
\* hasPasskeyRegistered and the start of authenticateWithPasskey
passkeyAfterSupport(lg, fr0, supported, emb, pkc, store, rnd) ==
    IF ~supported
    THEN [login |-> passkeySkipped(lg), frame |-> fr0, store |-> store,
          rnd |-> rnd]
    ELSE LET lh == [lg EXCEPT !.sfSteps = @ + 1] IN
         IF ~hasPasskeyRegistered(store, lg.user.id)
         THEN [login |-> passkeySkipped(lh), frame |-> fr0, store |-> store,
               rnd |-> rnd]
         ELSE LET r == beginCall("authenticate", lg.user.email, lg.user.id,
                                 emb, pkc, store, rnd)
                  la == [lh EXCEPT !.sfSteps = @ + 1, !.pc = "awaitAuth"]
              IN [login |-> IF r.frame.pc = "done"
                            THEN passkeyAfterAuthenticate(la, r.frame.res)
                            ELSE la,
                  frame |-> r.frame, store |-> r.store, rnd |-> r.rnd]

\* variant that gives the login button back once the password is verified
handlePasskeyAuth_releasesButton(lg, emb, pkc, store, rnd) ==
    LET l2 == [lg EXCEPT !.authStep = 2, !.authError = <<>>,
                        !.isAuthenticating = FALSE] IN
    IF l2.isInIframe
    THEN [login |-> passkeySkipped(l2), frame |-> IdleCall, store |-> store,
          rnd |-> rnd]
    ELSE LET r == beginCall("checkSupport", "", "", emb, pkc, store, rnd)
             l3 == [l2 EXCEPT !.sfSteps = @ + 1, !.pc = "awaitSupport"]
         IN IF r.frame.pc = "done"
            THEN passkeyAfterSupport(l3, r.frame, r.frame.supported = "true",
                                     emb, pkc, r.store, r.rnd)
            ELSE [login |-> l3, frame |-> r.frame, store |-> r.store,
                  rnd |-> r.rnd]

\* handlePasskeyAuth from its entry to its first suspension
handlePasskeyAuth(lg, emb, pkc, store, rnd) ==
    LET l2 == [lg EXCEPT !.authStep = 2, !.authError = <<>>] IN
    IF l2.isInIframe
    THEN [login |-> passkeySkipped(l2), frame |-> IdleCall, store |-> store,
          rnd |-> rnd]
    ELSE LET r == beginCall("checkSupport", "", "", emb, pkc, store, rnd)
             l3 == [l2 EXCEPT !.sfSteps = @ + 1, !.pc = "awaitSupport"]
         IN IF r.frame.pc = "done"
            THEN passkeyAfterSupport(l3, r.frame, r.frame.supported = "true",
                                     emb, pkc, r.store, r.rnd)
            ELSE [login |-> l3, frame |-> r.frame, store |-> r.store,
                  rnd |-> r.rnd]

\* variant without the `if (error) return` of handleLogin
afterSignIn_noGate(lg, out, emb, pkc, store, rnd) ==
    LET l1 == [lg EXCEPT !.pwOk = (out.kind = "ok")] IN
    IF out.kind = "throw"
    THEN [login |-> [l1 EXCEPT !.isAuthenticating = FALSE, !.authStep = 0,
                               !.pc = "idle"],
          frame |-> IdleCall, store |-> store, rnd |-> rnd]
    ELSE handlePasskeyAuth([l1 EXCEPT !.userId = out.user.id,
                                      !.user = out.user],
                           emb, pkc, store, rnd)

\* handleLogin after `await supabase.auth.signInWithPassword(...)`
afterSignIn(lg, out, emb, pkc, store, rnd) ==
    LET l1 == [lg EXCEPT !.pwOk = (out.kind = "ok")] IN
    IF out.kind = "throw"
    THEN [login |-> [l1 EXCEPT !.isAuthenticating = FALSE, !.authStep = 0,
                               !.pc = "idle"],
          frame |-> IdleCall, store |-> store, rnd |-> rnd]
    ELSE IF out.kind = "error"
    THEN [login |-> [l1 EXCEPT !.isAuthenticating = FALSE, !.authStep = 0,
                               !.pc = "idle"],
          frame |-> IdleCall, store |-> store, rnd |-> rnd]
    ELSE handlePasskeyAuth([l1 EXCEPT !.userId = out.user.id,
                                      !.user = out.user],
                           emb, pkc, store, rnd)

\* handleLogin after the profiles query: the page navigated to (or "") and
\* the new state
afterProfile(lg, out) ==
    IF out.kind = "error"
    THEN [lg EXCEPT !.navTo = "/voting-dashboard", !.pc = "idle"]
    ELSE IF out.kind = "throw"
    THEN [lg EXCEPT !.navTo = "/voting-dashboard",
                    !.isAuthenticating = FALSE, !.authStep = 0, !.pc = "idle"]
    ELSE [lg EXCEPT !.userRole = IF out.role # "" THEN out.role ELSE "voter",
                    !.pc = "awaitTimer"]

\* the setTimeout callback of handleLogin
redirect(lg) ==
    [lg EXCEPT !.navTo = IF lg.userRole = "admin" THEN "/admin-dashboard"
                         ELSE "/voting-dashboard",
               !.isAuthenticating = FALSE, !.authStep = 0, !.pc = "idle"]

\* ==================================================== registration pages
\* RegisterVoter and RegisterAdmin: the same handlers behind different form
\* validation
RegisterPages == {"/register-voter", "/register-admin"}

\* what the form fields can hold when the form is submitted (the fields
\* that are not modelled are filled in)
PasswordChoices ==
    {<<>>, <<"p", "w">>, <<"p", "a", "s", "s", "w", "o", "r", "d">>}
AdminCodes == {"ADMIN2024", "ADMIN2023"}
FormInputs ==
    [email : Emails \cup {""}, password : PasswordChoices,
     confirmPassword : PasswordChoices, adminCode : AdminCodes]

\* supabase.auth.signUp: resolves {error}, resolves {data.user} (which may
\* be null), or rejects
AllSignUpOutcomes ==
    {[kind |-> "error", user |-> NoUser], [kind |-> "throw", user |-> NoUser],
     [kind |-> "ok", user |-> NoUser]}
    \cup {[kind |-> "ok", user |-> a] : a \in Accounts}
SignUpOutcomes(email) ==
    {out \in AllSignUpOutcomes :
        out.user # NoUser => out.user.email = email}

\* the profiles update: resolves with or without {error}, or rejects
ProfileUpdateOutcomes == {"ok", "error", "throw"}

\* useState initial values; pc is the handler's position, email and
\* closureUserId are formData.email and userId as the running handler's
\* render captured them, user is data.user of the sign-up, and navTo is
\* where the page navigated
RegisterInit(page) ==
    [page |-> page, isRegistering |-> FALSE, registrationStep |-> 0,
     userId |-> "", pc |-> "idle", email |-> "", closureUserId |-> "",
     user |-> NoUser, navTo |-> ""]

\* the checks of handleSubmit before setIsRegistering(true)
formIsValid(page, form) ==
    /\ form.email # "" /\ form.password # <<>>
    /\ page = "/register-admin"
         => /\ form.confirmPassword # <<>>
            /\ form.password = form.confirmPassword
            /\ ~(Len(form.password) < 8)
            /\ form.adminCode = "ADMIN2024"

\* variant whose failure branch shows the toast without arming the timer
passkeySetupAfterRegister_failStays(rg, result) ==
    IF result.success
    THEN [rg EXCEPT !.registrationStep = 2, !.pc = "awaitTimer"]
    ELSE [rg EXCEPT !.isRegistering = FALSE, !.pc = "idle"]

\* handlePasskeySetup after `await passkeyAuth.registerPasskey(...)`: both
\* branches arm the timer that navigates to the login page
passkeySetupAfterRegister(rg, result) ==
    IF result.success
    THEN [rg EXCEPT !.registrationStep = 2, !.pc = "awaitTimer"]
    ELSE [rg EXCEPT !.pc = "awaitTimer"]

\* handlePasskeySetup from its entry to its first suspension: formData.email
\* and userId are those of the render the handler belongs to
handlePasskeySetup(rg, emb, pkc, store, rnd) ==
    LET r == beginCall("register", rg.email, rg.closureUserId, emb, pkc,
                       store, rnd)
        r1 == [rg EXCEPT !.registrationStep = 1, !.pc = "awaitRegister"]
    IN [reg |-> IF r.frame.pc = "done"
                THEN passkeySetupAfterRegister(r1, r.frame.res)
                ELSE r1,
        frame |-> r.frame, store |-> r.store, rnd |-> r.rnd]

\* handleSubmit after `await supabase.auth.signUp(...)`
submitAfterSignUp(rg, out) ==
    IF out.kind \in {"throw", "error"}
    THEN [rg EXCEPT !.isRegistering = FALSE, !.pc = "idle"]
    ELSE IF out.user = NoUser
    THEN [rg EXCEPT !.pc = "idle"]
    ELSE [rg EXCEPT !.userId = out.user.id, !.user = out.user,
                    !.pc = "awaitProfile"]

\* handleSubmit after the profiles update
submitAfterProfile(rg, fr0, out, emb, pkc, store, rnd) ==
    IF out = "throw"
    THEN [reg |-> [rg EXCEPT !.isRegistering = FALSE, !.pc = "idle"],
          frame |-> fr0, store |-> store, rnd |-> rnd]
    ELSE handlePasskeySetup(rg, emb, pkc, store, rnd)

\* --------------------------------------------- registration page actions
\* a registration link of the login page is followed: the page mounts
OpenRegistration(page) ==
    /\ route = "/"
    /\ route' = page
    /\ reg' = RegisterInit(page)
    /\ UNCHANGED <<admin, live, dash, bio, embedded, hasPKC, storage, clock, random, ops, call, login>>

\* "Back to Login" (disabled while isRegistering)
BackToLogin ==
    /\ route \in RegisterPages /\ ~reg.isRegistering
    /\ route' = "/"
    /\ reg' = [reg EXCEPT !.navTo = "/"]
    /\ UNCHANGED <<admin, live, dash, bio, embedded, hasPKC, storage, clock, random, ops, call, login>>

\* the form is submitted (the button is disabled while isRegistering)
HandleSubmit(form) ==
    /\ route \in RegisterPages /\ ~reg.isRegistering /\ reg.pc = "idle"
    /\ IF ~formIsValid(reg.page, form)
       THEN UNCHANGED <<ops, call, reg>>
       ELSE /\ ops < MaxOps
            /\ ops' = ops + 1
            /\ reg' = [reg EXCEPT !.isRegistering = TRUE,
                                  !.pc = "awaitSignUp",
                                  !.email = form.email,
                                  !.closureUserId = reg.userId,
                                  !.user = NoUser]
            /\ call' = [call EXCEPT ![0] = IdleCall]
    /\ UNCHANGED <<admin, live, dash, bio, embedded, hasPKC, storage, clock, random, route, login>>

\* signUp settles
SignUpSettles(out) ==
    /\ route \in RegisterPages /\ reg.pc = "awaitSignUp"
    /\ out \in SignUpOutcomes(reg.email)
    /\ reg' = submitAfterSignUp(reg, out)
    /\ UNCHANGED <<admin, live, dash, bio, embedded, hasPKC, storage, clock, random, ops, call, route,
                   login>>

\* the profiles update settles and handlePasskeySetup starts
ProfileUpdateSettles(out) ==
    /\ route \in RegisterPages /\ reg.pc = "awaitProfile"
    /\ LET r == submitAfterProfile(reg, call[0], out, embedded, hasPKC,
                                   storage, random) IN
          /\ reg' = r.reg
          /\ call' = [call EXCEPT ![0] = r.frame]
          /\ storage' = r.store
          /\ random' = r.rnd
    /\ UNCHANGED <<admin, live, dash, bio, embedded, hasPKC, clock, ops, route, login>>

\* the capability query inside the page's registerPasskey settles
RegisterSupportSettles(q) ==
    /\ route \in RegisterPages /\ reg.pc = "awaitRegister"
    /\ call[0].pc = "awaitSupport"
    /\ LET r == afterQuery(call[0], embedded, hasPKC, q, storage, random) IN
          /\ call' = [call EXCEPT ![0] = r.frame]
          /\ storage' = r.store
          /\ random' = r.rnd
          /\ reg' = IF r.frame.pc = "done"
                    THEN passkeySetupAfterRegister(reg, r.frame.res)
                    ELSE reg
    /\ UNCHANGED <<admin, live, dash, bio, embedded, hasPKC, clock, ops, route, login>>

\* the creation ceremony of the page's registerPasskey settles
RegisterCreateSettles(out, writeOk) ==
    /\ route \in RegisterPages /\ reg.pc = "awaitRegister"
    /\ call[0].pc = "awaitCreate"
    /\ LET r == registerAfterCreate(call[0], out, writeOk, storage, clock) IN
          /\ call' = [call EXCEPT ![0] = r.frame]
          /\ storage' = r.store
          /\ reg' = passkeySetupAfterRegister(reg, r.frame.res)
    /\ clock' = IF storage' # storage THEN clock + 1 ELSE clock
    /\ UNCHANGED <<admin, live, dash, bio, embedded, hasPKC, random, ops, route, login>>

\* the timer armed by handlePasskeySetup fires: navigate('/')
RegisterNavTimer ==
    /\ route \in RegisterPages /\ reg.pc = "awaitTimer"
    /\ route' = "/"
    /\ reg' = [reg EXCEPT !.pc = "idle", !.navTo = "/"]
    /\ UNCHANGED <<admin, live, dash, bio, embedded, hasPKC, storage, clock, random, ops, call, login>>

\* ---------------------------------------------------- login page actions
\* the login button is pressed (it is disabled while isAuthenticating)
HandleLogin(email, password) ==
    /\ route = "/" /\ ~login.isAuthenticating /\ login.pc = "idle"
    /\ IF trim(email) = "" \/ trim(password) = ""
       THEN UNCHANGED <<ops, call, login>>
       ELSE /\ ops < MaxOps
            /\ ops' = ops + 1
            /\ login' = [login EXCEPT !.email = email,
                            !.isAuthenticating = TRUE, !.authError = <<>>,
                            !.authStep = 1, !.pc = "awaitSignIn",
                            !.user = NoUser, !.userRole = "",
                            !.pwOk = FALSE, !.sfSteps = 0, !.sf = "none",
                            !.navTo = ""]
            /\ call' = [call EXCEPT ![0] = IdleCall]
    /\ UNCHANGED <<admin, live, dash, bio, embedded, hasPKC, storage, clock, random, route, reg>>

\* signInWithPassword settles
SignInSettles(out) ==
    /\ login.pc = "awaitSignIn"
    /\ out \in SignInOutcomes(login.email)
    /\ LET r == afterSignIn(login, out, embedded, hasPKC, storage, random) IN
          /\ login' = r.login
          /\ call' = [call EXCEPT ![0] = r.frame]
          /\ storage' = r.store
          /\ random' = r.rnd
    /\ UNCHANGED <<admin, live, dash, bio, embedded, hasPKC, clock, ops, route, reg>>

\* the capability query of the page's own checkPasskeySupport call settles
LoginSupportSettles(q) ==
    /\ login.pc = "awaitSupport" /\ call[0].pc = "awaitSupport"
    /\ LET f == afterQuery(call[0], embedded, hasPKC, q, storage, random)
           r == passkeyAfterSupport(login, f.frame,
                                    f.frame.supported = "true",
                                    embedded, hasPKC, f.store, f.rnd)
       IN /\ login' = r.login
          /\ call' = [call EXCEPT ![0] = r.frame]
          /\ storage' = r.store
          /\ random' = r.rnd
    /\ UNCHANGED <<admin, live, dash, bio, embedded, hasPKC, clock, ops, route, reg>>

\* the capability query inside the page's authenticateWithPasskey settles
LoginAuthSupportSettles(q) ==
    /\ login.pc = "awaitAuth" /\ call[0].pc = "awaitSupport"
    /\ LET r == afterQuery(call[0], embedded, hasPKC, q, storage, random) IN
          /\ call' = [call EXCEPT ![0] = r.frame]
          /\ storage' = r.store
          /\ random' = r.rnd
          /\ login' = IF r.frame.pc = "done"
                      THEN passkeyAfterAuthenticate(login, r.frame.res)
                      ELSE login
    /\ UNCHANGED <<admin, live, dash, bio, embedded, hasPKC, clock, ops, route, reg>>

\* the assertion ceremony of the page's authenticateWithPasskey settles
LoginAuthGetSettles(out) ==
    /\ login.pc = "awaitAuth" /\ call[0].pc = "awaitGet"
    /\ LET r == authenticateAfterGet(call[0], out, storage) IN
          /\ call' = [call EXCEPT ![0] = r.frame]
          /\ storage' = r.store
          /\ login' = passkeyAfterAuthenticate(login, r.frame.res)
    /\ UNCHANGED <<admin, live, dash, bio, embedded, hasPKC, clock, random, ops, route, reg>>

\* the profiles query settles
ProfileSettles(out) ==
    /\ login.pc = "awaitProfile"
    /\ login' = afterProfile(login, out)
    /\ route' = IF login'.navTo # "" THEN login'.navTo ELSE route
    /\ UNCHANGED <<admin, live, dash, bio, embedded, hasPKC, storage, clock, random, ops, call, reg>>

\* the one-second redirect timer fires
RedirectTimer ==
    /\ login.pc = "awaitTimer"
    /\ login' = redirect(login)
    /\ route' = login'.navTo
    /\ UNCHANGED <<admin, live, dash, bio, embedded, hasPKC, storage, clock, random, ops, call, reg>>

\* logout on a dashboard navigates back to the login page, which mounts
\* with its initial state (the record of the last attempt is kept)
Logout ==
    /\ route # "/" /\ login.pc = "idle"
    /\ route' = "/"
    /\ login' = [LoginInit(embedded) EXCEPT
                     !.pwOk = login.pwOk, !.sfSteps = login.sfSteps,
                     !.sf = login.sf, !.navTo = login.navTo]
    /\ UNCHANGED <<admin, live, dash, bio, embedded, hasPKC, storage, clock, random, ops, call, reg>>

\* ================================================= biometric authenticator
\* BiometricAuthenticator (utils/biometricAuth): a fingerprint step (a
\* WebAuthn creation ceremony) and a face step (a delay, then camera access)
BioHardwareNotSupported == <<"System", "hardware", "not", "supported.">>
BioFingerprintCancelled ==
    <<"Fingerprint", "authentication", "was", "cancelled", "or", "failed.">>
BioFingerprintGeneric ==
    <<"Fingerprint", "authentication", "failed.", "Please", "try", "again.">>
BioCameraRequired ==
    <<"Camera", "access", "required", "for", "face", "recognition.">>

\* BiometricAuthResult; <<>> and "" stand for an absent error and step
NoBioResult == [success |-> FALSE, error |-> <<>>, step |-> ""]
BioFailure(msg, step) == [success |-> FALSE, error |-> msg, step |-> step]
BioSuccess(step) == [success |-> TRUE, error |-> <<>>, step |-> step]

\* the call of the biometric authenticator that is running or has returned:
\* started lists the steps entered, nCreate and nMedia count the platform
\* requests, fingerprintResult and faceIdResult are the locals of
\* performFullBiometricAuth, calls counts the calls made so far
BioInit ==
    [op |-> "", pc |-> "idle", step |-> "", started |-> <<>>,
     nCreate |-> 0, nMedia |-> 0, fingerprintResult |-> NoBioResult,
     faceIdResult |-> NoBioResult, res |-> NoBioResult, calls |-> 0]

\* checkBiometricSupport once the capability query (if any) has outcome q
\* ("-" : not settled yet): support.fingerprint and support.faceId
checkBiometricSupport(pkc, q) ==
    IF ~pkc THEN "false"
    ELSE IF q = "-" THEN "pending"
    ELSE IF q = "throw" THEN "false"
    ELSE q

\* the catch block of authenticateFingerprint
fingerprintCatch(error) ==
    IF error.name = "NotSupportedError"
    THEN BioFailure(BioHardwareNotSupported, "fingerprint")
    ELSE IF error.name = "NotAllowedError"
    THEN BioFailure(BioFingerprintCancelled, "fingerprint")
    ELSE BioFailure(BioFingerprintGeneric, "fingerprint")

\* authenticateFingerprint after `await navigator.credentials.create(...)`
fingerprintAfterCreate(out) ==
    IF out.kind = "throw" THEN fingerprintCatch(out.error)
    ELSE IF out.kind = "null"
    THEN fingerprintCatch(Thrown("Error", <<"Fingerprint", "authentication",
                                           "failed">>))
    ELSE BioSuccess("fingerprint")

\* authenticateFaceId after `await navigator.mediaDevices.getUserMedia(...)`
faceIdAfterMedia(out) ==
    IF out = "throw" THEN BioFailure(BioCameraRequired, "faceid")
    ELSE BioSuccess("faceid")

RECURSIVE stepReturns(_, _, _)

\* a step function after `await this.checkBiometricSupport()`
stepAfterSupport(b, supported, pkc) ==
    IF ~supported
    THEN stepReturns(b, BioFailure(BioHardwareNotSupported, b.step), pkc)
    ELSE IF b.step = "fingerprint"
    THEN [b EXCEPT !.pc = "awaitCreate", !.nCreate = @ + 1]
    ELSE [b EXCEPT !.pc = "awaitDelay"]

\* a step function from its entry to its first suspension
beginStep(b, step, pkc) ==
    LET b1 == [b EXCEPT !.step = step, !.started = Append(@, step)]
        supported == checkBiometricSupport(pkc, "-")
    IN IF supported = "pending"
       THEN [b1 EXCEPT !.pc = "awaitSupport"]
       ELSE stepAfterSupport(b1, supported = "true", pkc)

\* variant of performFullBiometricAuth that goes on to the face step
\* whatever the fingerprint step returned
stepReturns_noFingerprintGate(b, result, pkc) ==
    IF b.op # "performFullBiometricAuth"
    THEN [b EXCEPT !.pc = "done", !.res = result]
    ELSE IF b.step = "fingerprint"
    THEN beginStep([b EXCEPT !.fingerprintResult = result], "faceid", pkc)
    ELSE LET b1 == [b EXCEPT !.faceIdResult = result] IN
         IF ~result.success
         THEN [b1 EXCEPT !.pc = "done", !.res = result]
         ELSE [b1 EXCEPT !.pc = "done", !.res = BioSuccess("complete")]

\* the running step function returns result: to the caller, or to
\* performFullBiometricAuth, which continues from there
stepReturns(b, result, pkc) ==
    IF b.op # "performFullBiometricAuth"
    THEN [b EXCEPT !.pc = "done", !.res = result]
    ELSE IF b.step = "fingerprint"
    THEN LET b1 == [b EXCEPT !.fingerprintResult = result] IN
         IF ~result.success
         THEN [b1 EXCEPT !.pc = "done", !.res = result]
         ELSE beginStep(b1, "faceid", pkc)
    ELSE LET b1 == [b EXCEPT !.faceIdResult = result] IN
         IF ~result.success
         THEN [b1 EXCEPT !.pc = "done", !.res = result]
         ELSE [b1 EXCEPT !.pc = "done", !.res = BioSuccess("complete")]

\* ------------------------------------------ biometric authenticator actions
\* a caller (the biometric login page) invokes the authenticator
CallBiometric(op) ==
    /\ bio.pc \in {"idle", "done"} /\ bio.calls < MaxOps
    /\ bio' = beginStep([BioInit EXCEPT !.op = op, !.calls = bio.calls + 1],
                        IF op = "authenticateFaceId" THEN "faceid"
                        ELSE "fingerprint",
                        hasPKC)
    /\ UNCHANGED <<admin, live, dash, embedded, hasPKC, storage, clock, random, ops, call,
                   route, login, reg>>

\* the capability query of checkBiometricSupport settles
BioSupportSettles(q) ==
    /\ bio.pc = "awaitSupport"
    /\ bio' = stepAfterSupport(bio, checkBiometricSupport(hasPKC, q) = "true",
                               hasPKC)
    /\ UNCHANGED <<admin, live, dash, embedded, hasPKC, storage, clock, random, ops, call,
                   route, login, reg>>

\* the creation ceremony of authenticateFingerprint settles
BioCreateSettles(out) ==
    /\ bio.pc = "awaitCreate"
    /\ bio' = stepReturns(bio, fingerprintAfterCreate(out), hasPKC)
    /\ UNCHANGED <<admin, live, dash, embedded, hasPKC, storage, clock, random, ops, call,
                   route, login, reg>>

\* the two-second delay of authenticateFaceId is over: getUserMedia is asked
BioDelayFires ==
    /\ bio.pc = "awaitDelay"
    /\ bio' = [bio EXCEPT !.pc = "awaitMedia", !.nMedia = @ + 1]
    /\ UNCHANGED <<admin, live, dash, embedded, hasPKC, storage, clock, random, ops, call,
                   route, login, reg>>

\* getUserMedia settles
BioMediaSettles(out) ==
    /\ bio.pc = "awaitMedia"
    /\ bio' = stepReturns(bio, faceIdAfterMedia(out), hasPKC)
    /\ UNCHANGED <<admin, live, dash, embedded, hasPKC, storage, clock, random, ops, call,
                   route, login, reg>>

\* ======================================================= voting dashboard
\* VotingDashboard: the countdown, the simulated tally updates and
\* handleVote, whose three delays (2 s, 2 s, 1.5 s) are timers
Candidates == {1, 2, 3}

\* useState initial values, the countdown at CountdownStart seconds (an
\* hour after mounting minus the seconds that have gone by); pc is the
\* position of handleVote, votingFor the selectedCandidate of the render
\* whose handleVote is running, and rounds counts the simulated updates
DashInit ==
    [selectedCandidate |-> 0, hasVoted |-> FALSE, isVoting |-> FALSE,
     votingStatus |-> "open", voteCount |-> (1 :> 1247) @@ (2 :> 1089) @@ (3 :> 945),
     timeRemaining |-> CountdownStart, pc |-> "idle", votingFor |-> 0,
     rounds |-> 0]

\* the updater of the countdown's setTimeRemaining and its setVotingStatus
countdown(d) ==
    IF d.timeRemaining <= 0
    THEN [d EXCEPT !.votingStatus = "closed", !.timeRemaining = 0]
    ELSE [d EXCEPT !.timeRemaining = @ - 1]

\* handleVote after its third delay: setHasVoted, setVoteCount, setIsVoting
castVote(d) ==
    [d EXCEPT !.hasVoted = TRUE,
              !.voteCount[d.votingFor] = @ + 1,
              !.isVoting = FALSE, !.pc = "idle"]

\* ----------------------------------------------- voting dashboard actions
\* a candidate card is clicked
SelectCandidate(c) ==
    /\ ~dash.hasVoted /\ dash.votingStatus = "open"
    /\ dash' = [dash EXCEPT !.selectedCandidate = c]
    /\ UNCHANGED <<admin, live, bio, embedded, hasPKC, storage, clock, random, ops, call,
                   route, login, reg>>

\* the vote button (shown while ~hasVoted and voting is open, disabled
\* without a selection and while isVoting) is pressed
HandleVote ==
    /\ ~dash.hasVoted /\ dash.votingStatus = "open"
    /\ dash.selectedCandidate # 0 /\ ~dash.isVoting
    /\ dash' = [dash EXCEPT !.isVoting = TRUE, !.pc = "awaitFingerprint",
                            !.votingFor = dash.selectedCandidate]
    /\ UNCHANGED <<admin, live, bio, embedded, hasPKC, storage, clock, random, ops, call,
                   route, login, reg>>

\* one of the delays of handleVote is over
VoteDelayFires ==
    /\ dash.pc \in {"awaitFingerprint", "awaitFace", "awaitCast"}
    /\ dash' = IF dash.pc = "awaitFingerprint"
               THEN [dash EXCEPT !.pc = "awaitFace"]
               ELSE IF dash.pc = "awaitFace"
               THEN [dash EXCEPT !.pc = "awaitCast"]
               ELSE castVote(dash)
    /\ UNCHANGED <<admin, live, bio, embedded, hasPKC, storage, clock, random, ops, call,
                   route, login, reg>>

\* the one-second interval of the countdown fires
CountdownTick ==
    /\ dash' = countdown(dash)
    /\ UNCHANGED <<admin, live, bio, embedded, hasPKC, storage, clock, random, ops, call,
                   route, login, reg>>

\* the five-second interval of the simulated tally fires: every candidate
\* gains Math.floor(Math.random() * 3) votes
SimulateVotes(gain) ==
    /\ dash.rounds < MaxRounds
    /\ dash' = [dash EXCEPT
                   !.voteCount = [c \in Candidates |-> @[c] + gain[c]],
                   !.rounds = @ + 1]
    /\ UNCHANGED <<admin, live, bio, embedded, hasPKC, storage, clock, random, ops, call,
                   route, login, reg>>

\* =========================================================== live results
\* LiveResults (components/admin): the election selector, the five-second
\* poller of the selected election, and fetchResults, which awaits the vote
\* counts and then the candidates of the election its render had selected
Elections == {"e1", "e2"}
FetchSlots == 1..MaxFetches

IdleFetch == [pc |-> "idle", election |-> "", voteCounts |-> 0, by |-> ""]

\* useState initial values after the mount effect has called fetchElections;
\* results and totalVotes are the counts shown and the election they were
\* fetched for, poller is the election of the running interval, fetch are
\* the fetchResults runs in flight (the election of their render and their
\* caller), started counts the runs, and backend is
\* the number of ballots the backend holds per election
LiveInit ==
    [pc |-> "awaitElections", selectedElection |-> "", loading |-> TRUE,
     refreshing |-> FALSE, results |-> [election |-> "", votes |-> 0], totalVotes |-> 0,
     poller |-> "", fetch |-> [i \in FetchSlots |-> IdleFetch],
     started |-> 0, backend |-> [e \in Elections |-> 0]]

\* fetchResults of a render that had selected election e, called by the
\* effect, the interval or the refresh button, from its entry to its first
\* suspension
fetchResults(lv, e, by) ==
    IF e = "" THEN lv
    ELSE LET i == CHOOSE j \in FetchSlots :
                      /\ lv.fetch[j].pc = "idle"
                      /\ \A k \in FetchSlots :
                            k < j => lv.fetch[k].pc # "idle"
         IN [lv EXCEPT !.refreshing = TRUE, !.started = @ + 1,
                       !.fetch[i] = [pc |-> "awaitCounts", election |-> e,
                                     voteCounts |-> 0, by |-> by]]

\* the effect on selectedElection: the cleanup of the previous run stops its
\* interval; with an election selected it fetches and starts an interval
selectionEffect(lv, e) ==
    IF e = "" THEN [lv EXCEPT !.selectedElection = e, !.poller = ""]
    ELSE fetchResults([lv EXCEPT !.selectedElection = e, !.poller = e], e,
                      "effect")

\* the finally block of fetchResults
fetchFinally(lv, i) ==
    [lv EXCEPT !.loading = FALSE, !.refreshing = FALSE,
               !.fetch[i] = IdleFetch]

\* fetchResults after `await supabase.rpc('get_live_vote_counts', ...)`
fetchAfterCounts(lv, i, out) ==
    IF out = "error" THEN fetchFinally(lv, i)
    ELSE [lv EXCEPT !.fetch[i].pc = "awaitCandidates",
                    !.fetch[i].voteCounts = lv.backend[lv.fetch[i].election]]

\* fetchResults after the candidates query: setResults and setTotalVotes
fetchAfterCandidates(lv, i, out) ==
    IF out = "throw" THEN fetchFinally(lv, i)
    ELSE fetchFinally(
             [lv EXCEPT !.results = [election |-> lv.fetch[i].election,
                                     votes |-> lv.fetch[i].voteCounts],
                        !.totalVotes = lv.fetch[i].voteCounts], i)

CanFetch(lv) ==
    /\ lv.started < MaxFetches
    /\ \E j \in FetchSlots : lv.fetch[j].pc = "idle"

\* ---------------------------------------------------- live results actions
\* the elections query of fetchElections settles: no data, or a list whose
\* first active (or first) election e is selected
ElectionsSettle(e) ==
    /\ live.pc = "awaitElections"
    /\ e # "" => CanFetch(live)
    /\ live' = IF e = "" THEN [live EXCEPT !.pc = "ready"]
               ELSE selectionEffect([live EXCEPT !.pc = "ready"], e)
    /\ UNCHANGED <<admin, dash, bio, embedded, hasPKC, storage, clock, random, ops,
                   call, route, login, reg>>

\* another election is chosen in the selector
SelectElection(e) ==
    /\ live.pc = "ready" /\ e # live.selectedElection
    /\ CanFetch(live)
    /\ live' = selectionEffect(live, e)
    /\ UNCHANGED <<admin, dash, bio, embedded, hasPKC, storage, clock, random, ops,
                   call, route, login, reg>>

\* the interval of the selected election fires
PollerFires ==
    /\ live.poller # "" /\ CanFetch(live)
    /\ live' = fetchResults(live, live.poller, "interval")
    /\ UNCHANGED <<admin, dash, bio, embedded, hasPKC, storage, clock, random, ops,
                   call, route, login, reg>>

\* the refresh button (disabled while refreshing) is pressed
RefreshClick ==
    /\ live.pc = "ready" /\ ~live.refreshing /\ live.selectedElection # ""
    /\ CanFetch(live)
    /\ live' = fetchResults(live, live.selectedElection, "button")
    /\ UNCHANGED <<admin, dash, bio, embedded, hasPKC, storage, clock, random, ops,
                   call, route, login, reg>>

\* the vote-count query of a fetchResults settles
CountsSettle(i, out) ==
    /\ live.fetch[i].pc = "awaitCounts"
    /\ live' = fetchAfterCounts(live, i, out)
    /\ UNCHANGED <<admin, dash, bio, embedded, hasPKC, storage, clock, random, ops,
                   call, route, login, reg>>

\* the candidates query of a fetchResults settles
CandidatesSettle(i, out) ==
    /\ live.fetch[i].pc = "awaitCandidates"
    /\ live' = fetchAfterCandidates(live, i, out)
    /\ UNCHANGED <<admin, dash, bio, embedded, hasPKC, storage, clock, random, ops,
                   call, route, login, reg>>

\* a voter's ballot for election e reaches the backend
BallotCast(e) ==
    /\ live.backend[e] < MaxBallots
    /\ live' = [live EXCEPT !.backend[e] = @ + 1]
    /\ UNCHANGED <<admin, dash, bio, embedded, hasPKC, storage, clock, random, ops,
                   call, route, login, reg>>

\* ======================================================== admin dashboard
\* AdminDashboard (pages/AdminDashboard): handleVotingControl, which looks
\* up an active election, updates its status, sets the votingStatus shown
\* and logs an audit event
ControlSlots == 1..MaxControls
IdleControl == [pc |-> "idle", action |-> "", election |-> ""]

\* election_status of the backend is "upcoming", "active" or "closed"; the
\* dashboard starts with votingStatus 'active', here next to one active
\* election; run are the handleVotingControl runs in flight, started counts
\* the runs and completed is the action of the run that returned last
AdminInit ==
    [votingStatus |-> "active",
     backend |-> [e \in Elections |-> IF e = "e1" THEN "active"
                                      ELSE "upcoming"],
     run |-> [i \in ControlSlots |-> IdleControl],
     started |-> 0, completed |-> ""]

\* newStatus of handleVotingControl
newStatus(action) ==
    IF action = "start" THEN "active"
    ELSE IF action = "pause" THEN "active"
    ELSE "closed"

\* the argument of setVotingStatus in handleVotingControl
shownStatus(action) ==
    IF action = "start" THEN "active"
    ELSE IF action = "pause" THEN "paused"
    ELSE "stopped"

\* whether the button of an action is enabled
controlEnabled(votingStatus, action) ==
    IF action = "start" THEN votingStatus # "active"
    ELSE IF action = "pause" THEN votingStatus = "active"
    ELSE votingStatus # "stopped"

\* the run returns (normally or through its catch block)
controlReturns(ad, i) ==
    [ad EXCEPT !.completed = ad.run[i].action, !.run[i] = IdleControl]

\* setVotingStatus and the call of log_audit_event
controlSetsStatus(ad, i) ==
    [ad EXCEPT !.votingStatus = shownStatus(ad.run[i].action),
               !.run[i].pc = "awaitAudit"]

\* handleVotingControl after the query for an active election: out is
\* "throw", "" (no data or no row) or the id of the row returned
controlAfterSelect(ad, i, out) ==
    IF out = "throw" THEN controlReturns(ad, i)
    ELSE IF out = "" THEN controlSetsStatus(ad, i)
    ELSE [ad EXCEPT !.run[i].pc = "awaitUpdate", !.run[i].election = out]

\* handleVotingControl after the update of the election: the backend has
\* applied it ("ok"), refused it ("error") or the request was rejected
controlAfterUpdate(ad, i, out) ==
    IF out = "throw" THEN controlReturns(ad, i)
    ELSE IF out = "error" THEN controlSetsStatus(ad, i)
    ELSE controlSetsStatus(
             [ad EXCEPT !.backend[ad.run[i].election]
                            = newStatus(ad.run[i].action)], i)

\* ------------------------------------------------ admin dashboard actions
\* a voting control button is pressed
HandleVotingControl(action) ==
    /\ controlEnabled(admin.votingStatus, action)
    /\ admin.started < MaxControls
    /\ \E i \in ControlSlots :
          /\ admin.run[i].pc = "idle"
          /\ \A k \in ControlSlots : k < i => admin.run[k].pc # "idle"
          /\ admin' = [admin EXCEPT
                          !.started = @ + 1,
                          !.run[i] = [pc |-> "awaitSelect",
                                      action |-> action, election |-> ""]]
    /\ UNCHANGED <<live, dash, bio, embedded, hasPKC, storage, clock, random,
                   ops, call, route, login, reg>>

\* the query for an active election settles
ControlSelectSettles(i, out) ==
    /\ admin.run[i].pc = "awaitSelect"
    /\ out \in {"throw", ""} \cup {e \in Elections : admin.backend[e] = "active"}
    /\ admin' = controlAfterSelect(admin, i, out)
    /\ UNCHANGED <<live, dash, bio, embedded, hasPKC, storage, clock, random,
                   ops, call, route, login, reg>>

\* the update of the election settles
ControlUpdateSettles(i, out) ==
    /\ admin.run[i].pc = "awaitUpdate"
    /\ admin' = controlAfterUpdate(admin, i, out)
    /\ UNCHANGED <<live, dash, bio, embedded, hasPKC, storage, clock, random,
                   ops, call, route, login, reg>>

\* log_audit_event settles (a rejection goes to the catch block)
ControlAuditSettles(i) ==
    /\ admin.run[i].pc = "awaitAudit"
    /\ admin' = controlReturns(admin, i)
    /\ UNCHANGED <<live, dash, bio, embedded, hasPKC, storage, clock, random,
                   ops, call, route, login, reg>>

AuthInit ==
    /\ embedded \in BOOLEAN
    /\ hasPKC \in BOOLEAN
    /\ storage = {}
    /\ clock = 0
    /\ random = 0
    /\ ops = 0
    /\ call = [c \in AllSlots |-> IdleCall]

Init ==
    /\ AuthInit
    /\ route = "/"
    /\ login = LoginInit(embedded)
    /\ reg = RegisterInit("")
    /\ bio = BioInit
    /\ dash = DashInit
    /\ live = LiveInit
    /\ admin = AdminInit

\* the authenticator under its direct callers
Next ==
    \/ \E c \in ClientSlots, e \in Emails, u \in UserIds : CallRegister(c, e, u)
    \/ \E c \in ClientSlots, a \in Accounts : CallAuthenticate(c, a.email, a.id)
    \/ \E c \in ClientSlots : CallCheckSupport(c)
    \/ \E u \in UserIds : CallRemove(u)
    \/ \E c \in ClientSlots, q \in QueryOutcomes : SupportSettles(c, q)
    \/ \E c \in ClientSlots, out \in CeremonyOutcomes, w \in BOOLEAN : CreateSettles(c, out, w)
    \/ \E c \in ClientSlots, out \in CeremonyOutcomes : GetSettles(c, out)
    \/ \E u \in UserIds : StorageDamaged(u)

Spec == Init /\ [][Next]_vars

\* the login page, next to one caller that registers and removes passkeys
LoginNext ==
    \/ \E e \in EmailInputs, p \in PasswordInputs : HandleLogin(e, p)
    \/ \E out \in AllSignInOutcomes : SignInSettles(out)
    \/ \E q \in QueryOutcomes : LoginSupportSettles(q)
    \/ \E q \in QueryOutcomes : LoginAuthSupportSettles(q)
    \/ \E out \in CeremonyOutcomes : LoginAuthGetSettles(out)
    \/ \E out \in ProfileOutcomes : ProfileSettles(out)
    \/ RedirectTimer
    \/ Logout
    \/ \E e \in Emails, u \in UserIds : CallRegister(1, e, u)
    \/ \E q \in QueryOutcomes : SupportSettles(1, q)
    \/ \E out \in CeremonyOutcomes, w \in BOOLEAN : CreateSettles(1, out, w)
    \/ \E u \in UserIds : CallRemove(u)
    \/ \E u \in UserIds : StorageDamaged(u)

LoginSpec == Init /\ [][LoginNext]_vars

\* the backend calls, the capability queries and the ceremony (which has a
\* 60 s timeout) settle, and the armed redirect timer fires
LoginLiveSpec ==
    /\ LoginSpec
    /\ WF_vars(\E out \in AllSignInOutcomes : SignInSettles(out))
    /\ WF_vars(\E q \in QueryOutcomes : LoginSupportSettles(q))
    /\ WF_vars(\E q \in QueryOutcomes : LoginAuthSupportSettles(q))
    /\ WF_vars(\E out \in CeremonyOutcomes : LoginAuthGetSettles(out))
    /\ WF_vars(\E out \in ProfileOutcomes : ProfileSettles(out))
    /\ WF_vars(RedirectTimer)

\* the registration pages, next to a caller that removes passkeys
RegisterNext ==
    \/ \E page \in RegisterPages : OpenRegistration(page)
    \/ BackToLogin
    \/ \E form \in FormInputs : HandleSubmit(form)
    \/ \E out \in AllSignUpOutcomes : SignUpSettles(out)
    \/ \E out \in ProfileUpdateOutcomes : ProfileUpdateSettles(out)
    \/ \E q \in QueryOutcomes : RegisterSupportSettles(q)
    \/ \E out \in CeremonyOutcomes, w \in BOOLEAN : RegisterCreateSettles(out, w)
    \/ RegisterNavTimer
    \/ \E u \in UserIds \cup {""} : CallRemove(u)

RegisterSpec == Init /\ [][RegisterNext]_vars

\* the backend calls, the capability query and the ceremony (which has a
\* 60 s timeout) settle, and an armed timer fires
RegisterLiveSpec ==
    /\ RegisterSpec
    /\ WF_vars(\E out \in AllSignUpOutcomes : SignUpSettles(out))
    /\ WF_vars(\E out \in ProfileUpdateOutcomes : ProfileUpdateSettles(out))
    /\ WF_vars(\E q \in QueryOutcomes : RegisterSupportSettles(q))
    /\ WF_vars(\E out \in CeremonyOutcomes, w \in BOOLEAN :
                   RegisterCreateSettles(out, w))
    /\ WF_vars(RegisterNavTimer)

\* the biometric authenticator under its callers
BioNext ==
    \/ \E op \in {"performFullBiometricAuth", "authenticateFingerprint",
                   "authenticateFaceId"} : CallBiometric(op)
    \/ \E q \in QueryOutcomes : BioSupportSettles(q)
    \/ \E out \in CeremonyOutcomes : BioCreateSettles(out)
    \/ BioDelayFires
    \/ \E out \in {"stream", "throw"} : BioMediaSettles(out)

BioSpec == Init /\ [][BioNext]_vars

\* the voting dashboard
DashNext ==
    \/ \E c \in Candidates : SelectCandidate(c)
    \/ HandleVote
    \/ VoteDelayFires
    \/ CountdownTick
    \/ \E gain \in [Candidates -> 0..2] : SimulateVotes(gain)

DashSpec == Init /\ [][DashNext]_vars

\* the live results panel
LiveNext ==
    \/ \E e \in Elections \cup {""} : ElectionsSettle(e)
    \/ \E e \in Elections : SelectElection(e)
    \/ PollerFires
    \/ RefreshClick
    \/ \E i \in FetchSlots, out \in {"ok", "error"} : CountsSettle(i, out)
    \/ \E i \in FetchSlots, out \in {"ok", "throw"} : CandidatesSettle(i, out)
    \/ \E e \in Elections : BallotCast(e)

LiveSpec == Init /\ [][LiveNext]_vars

\* the admin dashboard's voting control
AdminNext ==
    \/ \E action \in {"start", "pause", "stop"} : HandleVotingControl(action)
    \/ \E i \in ControlSlots, out \in {"throw", ""} \cup Elections :
          ControlSelectSettles(i, out)
    \/ \E i \in ControlSlots, out \in {"ok", "error", "throw"} :
          ControlUpdateSettles(i, out)
    \/ \E i \in ControlSlots : ControlAuditSettles(i)

AdminSpec == Init /\ [][AdminNext]_vars

\* ================================================================ claims
has(u) == hasPasskeyRegistered(storage, u)
hasNext(u) == hasPasskeyRegistered(storage', u)

\* the records of the index that belong to a user: stored under the user's
\* key, or carrying the user's id
recordsOf(store, u) ==
    {e \in store : e[1] = storageKey(u)
                   \/ (JSONparse(e[2]).ok /\ JSONparse(e[2]).value.userId = u)}

\* frame c takes a step of a call of the given operation
StepOf(c, op) == call'[c] # call[c] /\ call'[c].op = op
\* frame c's registerPasskey returns success in this step
RegisterSucceeds(c) ==
    /\ StepOf(c, "register")
    /\ call'[c].pc = "done" /\ call'[c].res.success
\* frame c's call returns in this step
Returns(c, op) == StepOf(c, op) /\ call'[c].pc = "done"

RegMessages == {RegNotSupportedEnv, RegNotSupportedDevice, RegCancelled,
                RegAlreadyRegistered, RegNotAvailableEnv, RegGeneric}
AuthMessages == {AuthNotSupportedEnv, AuthNoPasskeyFound,
                 AuthNotSupportedDevice, AuthCancelled, AuthNoValidPasskey,
                 AuthGeneric}

\* C1: when authenticateWithPasskey has returned success=false to the login
\* page, that login attempt has navigated nowhere and no routing is pending:
\* the handler is finished and the login page is still shown.
C1_FailedSecondFactorNeverRoutes ==
    (call[0].op = "authenticate" /\ call[0].pc = "done"
       /\ ~call[0].res.success)
    => (login.navTo = "" /\ login.pc = "idle" /\ route = "/")

C1_Witness ==
    /\ call[0].op = "authenticate" /\ call[0].pc = "done"
    /\ call[0].thrown = "NotAllowedError"
    /\ login.sf = "failed" /\ login.authError = AuthCancelled

\* C2: in a login attempt a second-factor step (checkPasskeySupport,
\* hasPasskeyRegistered, authenticateWithPasskey, the assertion ceremony)
\* has been started only if signInWithPassword resolved without error in
\* that attempt.
C2_PasswordBeforeSecondFactor ==
    (login.sfSteps > 0 \/ call[0].pc # "idle" \/ call[0].nGet > 0
       \/ login.pc \in {"awaitSupport", "awaitAuth"})
    => login.pwOk

C2_Witness == login.pwOk /\ login.pc = "awaitAuth" /\ call[0].pc = "awaitGet"

\* C3: has(userId) is false in the initial state and becomes true only by a
\* successful registerPasskey for that userId; a successful registerPasskey
\* makes it true; removePasskey makes it false.
C3_HasRoundTrip ==
    /\ \A u \in UserIds : ~has(u)
    /\ [][\A u \in UserIds :
            /\ (~has(u) /\ hasNext(u))
                 => \E c \in AllSlots : RegisterSucceeds(c) /\ call'[c].userId = u
            /\ \A c \in AllSlots :
                 (RegisterSucceeds(c) /\ call'[c].userId = u) => hasNext(u)
            /\ CallRemove(u) => ~hasNext(u)]_vars

\* a registration that succeeded for a user who has no passkey any more
C3_Witness ==
    \E c \in AllSlots :
        /\ call[c].op = "register" /\ call[c].pc = "done" /\ call[c].res.success
        /\ ~has(call[c].userId)
        /\ \E d \in AllSlots : d # c /\ call[d].op = "register"
                                /\ call[d].res.success /\ has(call[d].userId)

\* C4: a registerPasskey whose support check said false has returned
\* success=false with a "not supported" message, has invoked no creation
\* ceremony, and none of its steps changes localStorage.
C4_UnsupportedRegister ==
    /\ [](\A c \in AllSlots :
            (call[c].op = "register" /\ call[c].supported = "false")
            => /\ call[c].pc = "done" /\ ~call[c].res.success
               /\ includes(call[c].res.error, <<"not", "supported">>)
               /\ call[c].nCreate = 0 /\ call[c].nWrite = 0)
    /\ [][\A c \in AllSlots :
            (StepOf(c, "register") /\ call'[c].supported = "false")
            => storage' = storage]_vars

C4_Witness ==
    \E c \in AllSlots :
        /\ call[c].op = "register" /\ call[c].supported = "false"
        /\ call[c].pc = "done" /\ storage # {}

\* C5 as stated: an authenticateWithPasskey that returns while has(userId)
\* is false returns the "No passkey found ... register first" failure and
\* has invoked no assertion ceremony.
C5_Original ==
    [][\A c \in AllSlots :
         (Returns(c, "authenticate")
            /\ ~has(call'[c].userId) /\ ~hasNext(call'[c].userId))
         => (call'[c].res = Failure(AuthNoPasskeyFound)
               /\ call'[c].nGet = 0)]_vars

\* C5 amended: an authenticateWithPasskey whose support check said true and
\* whose lookup found no record (has(userId) false at the lookup) returns the
\* "No passkey found ... register first" failure; one whose support check
\* said false returns the "not supported in this environment" failure; in
\* neither case is the assertion ceremony invoked.
C5_NoRecordNoCeremony ==
    /\ [](\A c \in AllSlots :
            (call[c].op = "authenticate" /\ call[c].pc = "done")
            => /\ (call[c].supported = "false")
                    => (call[c].res = Failure(AuthNotSupportedEnv)
                          /\ call[c].nGet = 0)
               /\ (call[c].supported = "true" /\ call[c].lookup = "none")
                    => (call[c].res = Failure(AuthNoPasskeyFound)
                          /\ call[c].nGet = 0))
    /\ [][\A c \in AllSlots :
            (StepOf(c, "authenticate") /\ call[c].pc = "awaitSupport"
               /\ call'[c].lookup # "-")
            => (call'[c].lookup = "none") = ~has(call'[c].userId)]_vars

C5_Witness ==
    \E c \in AllSlots :
        /\ call[c].op = "authenticate" /\ call[c].pc = "done"
        /\ call[c].supported = "true" /\ call[c].lookup = "none"
        /\ call[c].query = "true" /\ call[c].nGet = 0

\* C6: a registerPasskey that has returned success wrote localStorage
\* exactly once, any other registerPasskey never wrote; the step that returns
\* success comes after the support check and the ceremony and leaves exactly
\* one record for the userId, the rest of the index being untouched; every
\* other step of a registerPasskey leaves localStorage as it is.
C6_RegisterAllOrNothing ==
    /\ [](\A c \in AllSlots : call[c].op = "register"
            => /\ call[c].nWrite = IF call[c].pc = "done" /\ call[c].res.success
                                   THEN 1 ELSE 0
               /\ call[c].pc = "done"
                    => (call[c].res.success \/ call[c].res.error # <<>>))
    /\ [][\A c \in AllSlots : StepOf(c, "register")
            => IF call'[c].pc = "done" /\ call'[c].res.success
               THEN /\ call[c].pc = "awaitCreate"
                    /\ call[c].supported = "true" /\ call[c].nCreate = 1
                    /\ Cardinality(recordsOf(storage', call[c].userId)) = 1
                    /\ storage' \ recordsOf(storage', call[c].userId)
                         = storage \ recordsOf(storage, call[c].userId)
               ELSE storage' = storage]_vars

\* a registration that failed after its ceremony, next to a stored record
C6_Witness ==
    \E c \in AllSlots :
        /\ call[c].op = "register" /\ call[c].pc = "done"
        /\ ~call[c].res.success /\ call[c].nCreate = 1
        /\ storage # {}

\* C7: localStorage never holds more than one record per userId, and the
\* step in which a registerPasskey returns success leaves under the userId
\* exactly the record of that call: its credential id, e-mail, userId and
\* time.
C7_OneRecordLastWriteWins ==
    /\ [](\A u \in UserIds : Cardinality(recordsOf(storage, u)) <= 1)
    /\ [][\A c \in AllSlots : RegisterSucceeds(c)
            => recordsOf(storage', call[c].userId)
               = {<<storageKey(call[c].userId),
                    <<"{", call'[c].res.credentialId, call[c].userEmail,
                      call[c].userId, <<"ISO", clock>>, "}">> >>}]_vars

\* two registrations succeeded for one user under different e-mails and
\* credential ids, and one record is stored
C7_Witness ==
    \E c, d \in AllSlots :
        /\ c # d
        /\ call[c].op = "register" /\ call[c].res.success
        /\ call[d].op = "register" /\ call[d].res.success
        /\ call[c].userId = call[d].userId
        /\ call[c].userEmail # call[d].userEmail
        /\ call[c].res.credentialId # call[d].res.credentialId
        /\ Cardinality(recordsOf(storage, call[c].userId)) = 1

\* C8: no step of an authenticateWithPasskey changes localStorage, and the
\* step in which a cancelled assertion (NotAllowedError) returns gives
\* success=false with a message containing "cancelled" and keeps the record
\* that was stored.
C8_AuthenticateLeavesIndex ==
    [][\A c \in AllSlots : StepOf(c, "authenticate")
         => /\ storage' = storage
            /\ (call'[c].pc = "done" /\ call'[c].thrown = "NotAllowedError")
                 => /\ ~call'[c].res.success
                    /\ includes(call'[c].res.error, <<"cancelled">>)
                    /\ has(call'[c].userId) => hasNext(call'[c].userId)]_vars

C8_Witness ==
    \E c \in AllSlots :
        /\ call[c].op = "authenticate" /\ call[c].pc = "done"
        /\ call[c].thrown = "NotAllowedError"
        /\ includes(call[c].res.error, <<"cancelled">>)
        /\ has(call[c].userId)

\* C9: every settled ceremony, lookup or support check of registerPasskey
\* and authenticateWithPasskey ends the call with a result object, and a
\* result with success=false carries one of the operation's own messages.
C9_AlwaysAResult ==
    /\ [](\A c \in AllSlots :
            /\ call[c].pc \in {"idle", "awaitSupport", "awaitCreate",
                               "awaitGet", "done"}
            /\ (call[c].op = "register" /\ call[c].pc = "done")
                 => (call[c].res.success \/ call[c].res.error \in RegMessages)
            /\ (call[c].op = "authenticate" /\ call[c].pc = "done")
                 => (call[c].res.success \/ call[c].res.error \in AuthMessages))
    /\ [][\A c \in AllSlots :
            (call[c].pc \in {"awaitCreate", "awaitGet"} /\ call'[c] # call[c])
            => call'[c].pc = "done"]_vars

\* an authenticate call that met an unparsable record
C9_Witness ==
    \E c \in AllSlots :
        /\ call[c].op = "authenticate" /\ call[c].pc = "done"
        /\ call[c].thrown = "SyntaxError" /\ call[c].res.error = AuthGeneric
        /\ ~call[c].res.success

\* C10: a checkPasskeySupport that has returned gave false in an embedded
\* window, false without PublicKeyCredential, false when the capability
\* query threw, and otherwise the value the query resolved to; the query is
\* issued only in a top-level window with PublicKeyCredential; no step of the
\* call changes localStorage.
C10_CheckSupportTotal ==
    /\ [](\A c \in AllSlots :
            (call[c].op = "checkSupport" /\ call[c].pc # "idle")
            => /\ call[c].pc \in {"awaitSupport", "done"}
               /\ call[c].pc = "done" => call[c].supported \in {"true", "false"}
               /\ (embedded /\ call[c].pc = "done")
                    => (call[c].supported = "false" /\ call[c].nQuery = 0)
               /\ (~hasPKC /\ call[c].pc = "done")
                    => (call[c].supported = "false" /\ call[c].nQuery = 0)
               /\ call[c].query = "throw" => call[c].supported = "false"
               /\ (~embedded /\ hasPKC /\ call[c].query \in {"true", "false"})
                    => call[c].supported = call[c].query
               /\ call[c].nQuery > 0 => (~embedded /\ hasPKC))
    /\ [][\A c \in AllSlots : StepOf(c, "checkSupport")
            => storage' = storage]_vars

C10_Witness ==
    \E c, d \in AllSlots :
        /\ call[c].op = "checkSupport" /\ call[c].pc = "done"
        /\ call[c].query = "throw" /\ call[c].supported = "false"
        /\ call[d].op = "checkSupport" /\ call[d].pc = "done"
        /\ call[d].query = "true" /\ call[d].supported = "true"

\* frame c is a registerPasskey suspended in its creation ceremony
CreatePending(c) == call[c].op = "register" /\ call[c].pc = "awaitCreate"
\* frame c is an authenticateWithPasskey suspended in its assertion ceremony
GetPending(c) == call[c].op = "authenticate" /\ call[c].pc = "awaitGet"
\* frame c's creation ceremony settles in this step
CreateSettled(c) ==
    /\ call[c].op = "register" /\ call[c].pc = "awaitCreate"
    /\ call'[c] # call[c]
\* frame c's assertion ceremony settles in this step
GetSettled(c) ==
    /\ call[c].op = "authenticate" /\ call[c].pc = "awaitGet"
    /\ call'[c] # call[c]
\* the step is frame c's creation ceremony settling with the given outcome,
\* localStorage accepting a write or not
CreateSettlesAs(c, out, writeOk) ==
    LET r == registerAfterCreate(call[c], out, writeOk, storage, clock) IN
          call'[c] = r.frame /\ storage' = r.store
\* the step is frame c's assertion ceremony settling with the given outcome
GetSettlesAs(c, out) ==
    LET r == authenticateAfterGet(call[c], out, storage) IN
          call'[c] = r.frame /\ storage' = r.store
\* the ceremony outcomes that are failures
FailedOutcomes == {out \in CeremonyOutcomes : out.kind # "credential"}

\* C11: in an embedded window no call of any operation has issued the
\* capability query or invoked a ceremony (or drawn a challenge for one),
\* every registerPasskey has returned the "not supported in this
\* environment ... new tab" failure and every authenticateWithPasskey the
\* "not supported in this environment" failure.
C11_EmbeddedFailsClosed ==
    embedded =>
        \A c \in AllSlots :
            /\ call[c].nQuery = 0 /\ call[c].nCreate = 0 /\ call[c].nGet = 0
            /\ call[c].challenge = <<>> /\ random = 0
            /\ call[c].op = "register"
                 => (call[c].pc = "done"
                       /\ call[c].res = Failure(RegNotSupportedEnv))
            /\ call[c].op = "authenticate"
                 => (call[c].pc = "done"
                       /\ call[c].res = Failure(AuthNotSupportedEnv))

\* an authenticateWithPasskey that returned in an embedded window after an
\* earlier operation
C11_Witness ==
    /\ embedded /\ hasPKC /\ ops >= 2
    /\ \E c \in AllSlots :
          /\ call[c].op = "authenticate" /\ call[c].pc = "done"
          /\ call[c].supported = "false"

\* C12 as stated: a creation ceremony that fails gives the "not supported on
\* this device" message for NotSupportedError, the "cancelled or denied"
\* message for NotAllowedError, the "already registered for this account"
\* message for InvalidStateError and the generic retry message for every
\* other failure; the four messages are pairwise distinct.
C12_Original ==
    /\ Cardinality({RegNotSupportedDevice, RegCancelled, RegAlreadyRegistered,
                    RegGeneric}) = 4
    /\ [][\A c \in AllSlots : CreateSettled(c) =>
          \A out \in FailedOutcomes :
            CreateSettlesAs(c, out, TRUE)
            => call'[c].res = Failure(
                 IF out.error.name = "NotSupportedError"
                 THEN RegNotSupportedDevice
                 ELSE IF out.error.name = "NotAllowedError" THEN RegCancelled
                 ELSE IF out.error.name = "InvalidStateError"
                 THEN RegAlreadyRegistered
                 ELSE RegGeneric)]_vars

\* C12 amended (of every call suspended in its creation ceremony, for every
\* failure the ceremony can then settle with): as stated, except that a failure of none of the three named
\* classes whose message mentions "publickey-credentials-create" gives the
\* "not available in this environment ... new browser tab" message, and only
\* the remaining failures (the ceremony returning no credential among them)
\* give the generic retry message; the five messages are pairwise distinct.
C12_RegisterErrorClasses ==
    /\ Cardinality({RegNotSupportedDevice, RegCancelled, RegAlreadyRegistered,
                    RegNotAvailableEnv, RegGeneric}) = 5
    /\ \A c \in AllSlots : CreatePending(c) =>
          \A out \in FailedOutcomes :
            registerAfterCreate(call[c], out, TRUE, storage, clock).frame.res
              = Failure(
                 IF out.error.name = "NotSupportedError"
                 THEN RegNotSupportedDevice
                 ELSE IF out.error.name = "NotAllowedError" THEN RegCancelled
                 ELSE IF out.error.name = "InvalidStateError"
                 THEN RegAlreadyRegistered
                 ELSE IF out.kind = "throw"
                         /\ includes(out.error.message,
                                     <<"publickey-credentials-create">>)
                 THEN RegNotAvailableEnv
                 ELSE RegGeneric)

\* a SecurityError of the permissions policy next to a cancelled ceremony
C12_Witness ==
    \E c, d \in AllSlots :
        /\ call[c].op = "register" /\ call[c].pc = "done"
        /\ call[c].thrown = "SecurityError"
        /\ call[c].res.error = RegNotAvailableEnv
        /\ call[d].op = "register" /\ call[d].pc = "done"
        /\ call[d].thrown = "NotAllowedError"
        /\ call[d].res.error = RegCancelled

\* C13: for every call suspended in its assertion ceremony and every failure
\* the ceremony can then settle with, the call returns the "not supported
\* on this device" message for NotSupportedError, the "cancelled or failed"
\* message for NotAllowedError, the "No valid passkey found" message for
\* InvalidStateError and the generic message for every other failure, the
\* ceremony returning no credential among them; the four messages are
\* pairwise distinct.
C13_AuthenticateErrorClasses ==
    /\ Cardinality({AuthNotSupportedDevice, AuthCancelled, AuthNoValidPasskey,
                    AuthGeneric}) = 4
    /\ \A c \in AllSlots : GetPending(c) =>
          \A out \in FailedOutcomes :
            authenticateAfterGet(call[c], out, storage).frame.res
              = Failure(
                 IF out.error.name = "NotSupportedError"
                 THEN AuthNotSupportedDevice
                 ELSE IF out.error.name = "NotAllowedError" THEN AuthCancelled
                 ELSE IF out.error.name = "InvalidStateError"
                 THEN AuthNoValidPasskey
                 ELSE AuthGeneric)

\* an assertion without a valid credential next to one that returned null
C13_Witness ==
    \E c, d \in AllSlots :
        /\ call[c].op = "authenticate" /\ call[c].pc = "done"
        /\ call[c].thrown = "InvalidStateError"
        /\ call[c].res.error = AuthNoValidPasskey
        /\ call[d].op = "authenticate" /\ call[d].pc = "done"
        /\ call[d].outcome = "null" /\ call[d].res.error = AuthGeneric

\* the record stored for a user, as JSON.parse reads it back
storedRecord(store, u) == JSONparse(getItem(store, storageKey(u)).val)

\* C14 as stated: whenever the creation ceremony of a registerPasskey (which
\* is invoked only after the support check said true) returns a credential
\* with id c, the call returns {success: true, credentialId: c} and the
\* record then stored under the userId carries c and the e-mail address and
\* userId of the call.
C14_Original ==
    [][\A c \in AllSlots : CreateSettled(c) =>
         \A id \in CredIds, w \in BOOLEAN :
           CreateSettlesAs(c, Resolved(id), w)
           => /\ call[c].supported = "true"
              /\ call'[c].res = RegistrationSuccess(id)
              /\ storedRecord(storage', call[c].userId)
                   = [ok |-> TRUE,
                      value |-> [id |-> id, userEmail |-> call[c].userEmail,
                                 userId |-> call[c].userId,
                                 createdAt |-> toISOString(clock)]]]_vars

\* C14 amended (of every call suspended in its creation ceremony): the
\* support check of the call said true; if the ceremony returns a credential
\* with id c and localStorage accepts the write, the call returns
\* {success: true, credentialId: c} and the record then stored under the
\* userId carries c and the e-mail address and userId of the call; if
\* localStorage rejects the write, the call returns the generic failure and
\* localStorage is unchanged.
C14_RegisterStoresCredential ==
    \A c \in AllSlots : CreatePending(c) =>
        /\ call[c].supported = "true"
        /\ \A id \in CredIds :
             LET r == registerAfterCreate(call[c], Resolved(id), TRUE,
                                          storage, clock)
                 q == registerAfterCreate(call[c], Resolved(id), FALSE,
                                          storage, clock)
             IN /\ r.frame.pc = "done"
                /\ r.frame.res = RegistrationSuccess(id)
                /\ storedRecord(r.store, call[c].userId)
                     = [ok |-> TRUE,
                        value |-> [id |-> id, userEmail |-> call[c].userEmail,
                                   userId |-> call[c].userId,
                                   createdAt |-> toISOString(clock)]]
                /\ q.frame.res = Failure(RegGeneric) /\ q.store = storage

\* a registration that returned cred-2 for u1 under the address of another
\* account, and the record of u1
C14_Witness ==
    \E c \in AllSlots :
        /\ call[c].op = "register" /\ call[c].pc = "done"
        /\ call[c].userId = "u1" /\ call[c].userEmail = "b@x.com"
        /\ call[c].res = RegistrationSuccess("cred-2")
        /\ storedRecord(storage, "u1").ok
        /\ storedRecord(storage, "u1").value.id = "cred-2"
        /\ storedRecord(storage, "u1").value.userEmail = "b@x.com"
        /\ storedRecord(storage, "u1").value.userId = "u1"

\* a registerPasskey returned success for the user and the user's record
\* has been removed since
RegisteredThenRemoved(u) ==
    /\ ~has(u)
    /\ \E c \in AllSlots :
          /\ call[c].op = "register" /\ call[c].pc = "done"
          /\ call[c].res.success /\ call[c].userId = u
\* frame d's authenticateWithPasskey gets true from its support check in
\* this step and goes on to the lookup
LookupStep(d) ==
    /\ call[d].op = "authenticate" /\ call[d].pc = "awaitSupport"
    /\ call'[d].supported = "true"

\* C15: after a successful registerPasskey for u followed by removePasskey(u)
\* (and no registration of u since), an authenticateWithPasskey for u
\* whose support check says true returns the "No passkey found ... register
\* a passkey first" failure in that step, without a challenge and without
\* invoking the assertion ceremony; the removal itself leaves has(u) false.
C15_RemoveThenAuthenticate ==
    [][\A u \in UserIds :
         /\ (CallRemove(u) /\ has(u)) => ~hasNext(u)
         /\ RegisteredThenRemoved(u) =>
              \A d \in AllSlots :
                (LookupStep(d) /\ call[d].userId = u)
                => /\ call'[d].pc = "done"
                   /\ call'[d].res = Failure(AuthNoPasskeyFound)
                   /\ call'[d].nGet = 0 /\ random' = random]_vars

C15_Witness ==
    \E c, d \in AllSlots :
        /\ call[c].op = "register" /\ call[c].pc = "done"
        /\ call[c].res.success /\ ~has(call[c].userId)
        /\ call[d].op = "authenticate" /\ call[d].pc = "done"
        /\ call[d].userId = call[c].userId
        /\ call[d].query = "true" /\ call[d].lookup = "none"
        /\ call[d].res = Failure(AuthNoPasskeyFound)

\* C16: an authenticateWithPasskey that has invoked the assertion ceremony
\* had true from its support check and found a record in its lookup, and
\* the ceremony's allowCredentials has exactly one entry; in the step that
\* invokes the ceremony the user has a record and that entry is the
\* (UTF-8 encoded) credential id of that record.
C16_LookupBeforeCeremony ==
    /\ [](\A c \in AllSlots :
            (call[c].op = "authenticate" /\ call[c].nGet > 0)
            => /\ call[c].supported = "true" /\ call[c].lookup = "found"
               /\ Len(call[c].allowCredentials) = 1)
    /\ [][\A d \in AllSlots :
            (LookupStep(d) /\ call'[d].pc = "awaitGet")
            => /\ has(call[d].userId)
               /\ storedRecord(storage, call[d].userId).ok
               /\ call'[d].allowCredentials
                    = <<TextEncoderEncode(
                          storedRecord(storage, call[d].userId).value.id)>>
               /\ call[d].nGet = 0 /\ call'[d].nGet = 1]_vars

\* an assertion ceremony is pending for u1 with the id that was registered
\* for u1, while u2 has another credential
C16_Witness ==
    \E c \in AllSlots :
        /\ GetPending(c) /\ call[c].userId = "u1"
        /\ call[c].allowCredentials = <<TextEncoderEncode("cred-2")>>
        /\ storedRecord(storage, "u1").value.id = "cred-2"
        /\ has("u2") /\ storedRecord(storage, "u2").value.id = "cred-1"

\* C17: removePasskey(u) for a u without a record leaves localStorage as it
\* is; after any removePasskey(u), has(u) is false and removing u once more
\* would change nothing; the removal touches no call and ends no call with
\* an error.
C17_RemoveIdempotent ==
    [][\A u \in UserIds :
         CallRemove(u)
         => /\ ~has(u) => storage' = storage
            /\ ~hasNext(u)
            /\ removePasskey(storage', u) = storage'
            /\ storage' \subseteq storage
            /\ call' = call]_vars

\* two operations were started and no call was ever made: both were
\* removals of a user without a record
C17_Witness ==
    /\ ops = 2 /\ storage = {}
    /\ \A c \in AllSlots : call[c].pc = "idle"

\* the lookup of frame c found a record: a stored value that parses as one
FoundRecord(c) ==
    /\ call[c].supported = "true" /\ call[c].lookup = "found"
    /\ call[c].thrown # "SyntaxError"

\* C18: an authenticateWithPasskey invokes the assertion ceremony at most
\* once, and exactly once if its support check said true and its lookup
\* found a record; the ceremonies that are pending have challenges that
\* differ from each other; the step that invokes a ceremony draws a new
\* challenge from the generator, which no pending call holds and no earlier
\* call was given; only the settling of its own ceremony gives a call its
\* result.
C18_FreshCeremony ==
    /\ [](/\ \A c \in AllSlots :
              /\ (call[c].op = "authenticate")
                   => (call[c].nGet = IF FoundRecord(c) THEN 1 ELSE 0)
              /\ (CreatePending(c) \/ GetPending(c))
                   => (\E k \in 1..random : call[c].challenge = <<"random", k>>)
          /\ \A c, d \in AllSlots :
               (c # d /\ call[c].challenge # <<>>)
               => (call[c].challenge # call[d].challenge))
    /\ [][\A d \in AllSlots :
            /\ (LookupStep(d) /\ call'[d].pc = "awaitGet")
                 => (/\ random' = random + 1
                     /\ call'[d].challenge = <<"random", random'>>
                     /\ \A c \in AllSlots :
                          call[c].challenge # call'[d].challenge)
            /\ (/\ call[d].op = "authenticate" /\ call'[d].op = "authenticate"
                /\ call'[d].res.success /\ ~call[d].res.success)
                 => GetSettled(d)]_vars

\* two assertion ceremonies pending at once for the same user
C18_Witness ==
    \E c, d \in AllSlots :
        /\ c # d /\ GetPending(c) /\ GetPending(d)
        /\ call[c].userId = call[d].userId
        /\ call[c].challenge # call[d].challenge
        /\ random >= 3

\* C19: when the sign-up of a registration page has returned a user and the
\* page's registerPasskey returns success, the call was made with that
\* user's id as userId, so that the user has a passkey registered from then
\* on (and a later login of the user finds it).
C19_RegistersNewUserId ==
    [][(route \in RegisterPages /\ reg.user # NoUser /\ RegisterSucceeds(0))
       => /\ call'[0].userId = reg.user.id
          /\ hasNext(reg.user.id)]_vars

\* handlePasskeyAuth of the current attempt returns at one of its gates or
\* goes on to authenticateWithPasskey in this step
SecondFactorDecided ==
    /\ login.pc \in {"awaitSignIn", "awaitSupport"}
    /\ login'.pc \notin {"awaitSignIn", "awaitSupport"}
    /\ login'.pwOk

\* the support check of handlePasskeyAuth returns false in this step
SupportSaysFalse ==
    \/ /\ login.pc = "awaitSignIn"
       /\ checkPasskeySupport(embedded, hasPKC, "-") = "false"
    \/ /\ login.pc = "awaitSupport"
       /\ \E q \in QueryOutcomes :
            /\ LoginSupportSettles(q)
            /\ checkPasskeySupport(embedded, hasPKC, q) = "false"

SignUpSucceeded ==
    /\ route \in RegisterPages /\ reg.user # NoUser
    /\ reg.pc \in {"awaitProfile", "awaitRegister", "awaitTimer"}

C22_FullBiometricOrder ==
    bio.op = "performFullBiometricAuth"
    => /\ bio.started \in {<<"fingerprint">>, <<"fingerprint", "faceid">>}
       /\ (Len(bio.started) = 2 \/ bio.nMedia > 0 \/ bio.step = "faceid")
            => (bio.fingerprintResult.success /\ bio.nCreate = 1)
       /\ bio.faceIdResult # NoBioResult => Len(bio.started) = 2
       /\ bio.pc # "done" => bio.res = NoBioResult
       /\ bio.pc = "done"
            => /\ bio.res.success
                    <=> (bio.fingerprintResult.success
                         /\ bio.faceIdResult.success)
               /\ bio.res.success => bio.res = BioSuccess("complete")
               /\ ~bio.res.success
                    => \/ /\ ~bio.fingerprintResult.success
                          /\ bio.res = bio.fingerprintResult
                          /\ bio.res.step = "fingerprint"
                          /\ bio.started = <<"fingerprint">>
                       \/ /\ bio.fingerprintResult.success
                          /\ bio.res = bio.faceIdResult
                          /\ bio.res.step = "faceid"

\* a full authentication has returned the failure of its face step
C22_Witness ==
    /\ bio.op = "performFullBiometricAuth" /\ bio.pc = "done"
    /\ bio.fingerprintResult = BioSuccess("fingerprint")
    /\ bio.res = BioFailure(BioCameraRequired, "faceid")
    /\ bio.nCreate = 1 /\ bio.nMedia = 1

\* handleVote records the voter's vote in this step
VoteRecorded == dash.pc = "awaitCast" /\ dash'.pc = "idle"

\* C23: the voter's vote is recorded (hasVoted set, the count of the
\* candidate voted for incremented by one) at most once and only while
\* votingStatus is "open", and a closed vote never reopens.
C23_VoteOnceWhileOpen ==
    [][/\ VoteRecorded
           => /\ ~dash.hasVoted
              /\ dash.votingStatus = "open" /\ dash'.votingStatus = "open"
       /\ (dash'.hasVoted /\ ~dash.hasVoted) => dash.votingStatus = "open"
       /\ dash.votingStatus = "closed" => dash'.votingStatus = "closed"]_vars

\* after the step, the index holds for the user of frame c one record, and
\* it is the whole record of frame c's registration
HoldsRecordOf(c) ==
    LET u == call[c].userId IN
    /\ Cardinality(recordsOf(storage', u)) = 1
    /\ storedRecord(storage', u).ok
    /\ storedRecord(storage', u).value
         = credentialInfo(call'[c].res.credentialId, call[c].userEmail, u,
                          clock)

\* C24: when two registerPasskey calls for one userId are both suspended in
\* their ceremonies and one of them returns success, the other stays
\* suspended and the index holds the whole record of the one that returned;
\* when the second returns success too, the index holds for the userId
\* exactly one record, the whole record of the second (its credential id,
\* e-mail address and time), nothing of the first.
C24_OverlappingRegisters ==
    [][\A c, d \in AllSlots :
         (/\ c # d /\ CreatePending(c) /\ RegisterSucceeds(c)
          /\ call[d].op = "register" /\ call[d].userId = call[c].userId)
         => /\ CreatePending(d) => (call'[d] = call[d] /\ HoldsRecordOf(c))
            /\ (call[d].pc = "done" /\ call[d].res.success)
                 => (call'[d] = call[d] /\ HoldsRecordOf(c))]_vars

\* two registrations of one user that overlapped (they are the only two
\* operations and took two frames) have both returned success, with
\* different credential ids and e-mail addresses: one record is stored, the
\* second one written
C24_Witness ==
    \E c, d \in AllSlots :
        /\ c # d /\ ops = 2 /\ clock = 2
        /\ call[c].op = "register" /\ call[c].res.success
        /\ call[d].op = "register" /\ call[d].res.success
        /\ call[c].userId = call[d].userId
        /\ call[c].userEmail # call[d].userEmail
        /\ call[c].res.credentialId # call[d].res.credentialId
        /\ Cardinality(recordsOf(storage, call[c].userId)) = 1
        /\ storedRecord(storage, call[c].userId).value
             = credentialInfo(call[c].res.credentialId, call[c].userEmail,
                              call[c].userId, 1)

\* the step is an operation of the authenticator on userId u: a step of a
\* registerPasskey or authenticateWithPasskey call for u, or removePasskey(u)
OperationOn(u) ==
    \/ \E c \in AllSlots :
          /\ call'[c] # call[c]
          /\ call'[c].op \in {"register", "authenticate"}
          /\ call'[c].userId = u
    \/ CallRemove(u)

\* C25: a step of registerPasskey(_, u) or authenticateWithPasskey(_, u), or
\* removePasskey(u), leaves for every other userId v what is stored under
\* v's key, hence v's record and hasPasskeyRegistered(v), as they were.
C25_PerUserIsolation ==
    [][\A u, v \in UserIds :
         (u # v /\ OperationOn(u))
         => /\ getItem(storage', storageKey(v)) = getItem(storage, storageKey(v))
            /\ recordsOf(storage', v) = recordsOf(storage, v)
            /\ hasNext(v) = has(v)]_vars

\* passkeys were registered for two users and the one of the first was
\* removed: the second user's record is still there
C25_Witness ==
    \E c, d \in AllSlots :
        /\ call[c].op = "register" /\ call[c].res.success
        /\ call[d].op = "register" /\ call[d].res.success
        /\ call[c].userId # call[d].userId
        /\ ops = 3 /\ clock = 2
        /\ ~has(call[c].userId)
        /\ storedRecord(storage, call[d].userId).ok
        /\ storedRecord(storage, call[d].userId).value.id
             = call[d].res.credentialId

\* C26: whenever isAuthenticating is true (a handleLogin has passed its
\* input validation), the login page eventually has isAuthenticating false
\* and authStep 0.
C26_LoginAlwaysResets ==
    login.isAuthenticating
        ~> (~login.isAuthenticating /\ login.authStep = 0)

\* C27: authStep is 3 only while the authenticateWithPasskey call of the
\* current login attempt has returned success; authStep becomes 3 only in
\* the step in which that call's ceremony settles with success; an attempt
\* whose second factor was skipped or failed never has authStep 3.
C27_StepThreeMeansPasskey ==
    /\ [](/\ login.authStep = 3
              => /\ login.sf = "passed" /\ login.pwOk
                 /\ call[0].op = "authenticate" /\ call[0].pc = "done"
                 /\ call[0].res.success /\ call[0].nGet = 1
                 /\ call[0].userId = login.user.id
          /\ (login.isAuthenticating /\ login.sf \in {"skipped", "failed"})
              => login.authStep # 3)
    /\ [][(login'.authStep = 3 /\ login.authStep # 3)
          => (GetSettled(0) /\ call'[0].res.success
              /\ login.authStep = 2)]_vars

\* the passkey was accepted and the page shows the completed second factor
\* while the profile is looked up
C27_Witness ==
    /\ login.authStep = 3 /\ login.pc = "awaitProfile"
    /\ call[0].res.success /\ call[0].outcome = "credential"

\* a handleLogin passes its input validation in this step
LoginStarts == login.pc = "idle" /\ login'.pc = "awaitSignIn"

\* C28: while a handleLogin run is suspended (on the password check, a
\* capability query, the ceremony, the profile query or the redirect timer)
\* isAuthenticating is true, which disables the login button; hence a
\* handleLogin starts only when isAuthenticating is false and no call of an
\* earlier run is pending, and never while another run is suspended.
C28_OneLoginInFlight ==
    /\ [](/\ (login.pc # "idle") => login.isAuthenticating
          /\ (call[0].pc \notin {"idle", "done"})
              => (login.isAuthenticating
                  /\ login.pc \in {"awaitSupport", "awaitAuth"}))
    /\ [][/\ LoginStarts
              => (/\ ~login.isAuthenticating /\ login'.isAuthenticating
                  /\ call[0].pc \in {"idle", "done"})
          /\ login.isAuthenticating => ~LoginStarts
          /\ (login.pc # "idle") => (login'.email = login.email)]_vars

\* a login is suspended in its ceremony with the button disabled
C28_Witness ==
    /\ login.isAuthenticating /\ login.pc = "awaitAuth"
    /\ call[0].op = "authenticate" /\ call[0].pc = "awaitGet"
    /\ ops >= 2

\* C29: the interval that runs is that of the selected election, and a step
\* that changes the results shown or totalVotes sets them to counts fetched
\* for the election that is selected then, never to those of an election
\* selected before.
C29_ResultsOfSelectedElection ==
    /\ [](live.poller = live.selectedElection)
    /\ [][(live'.results # live.results
           \/ live'.totalVotes # live.totalVotes)
          => /\ live'.results.election = live'.selectedElection
             /\ live'.totalVotes = live'.results.votes]_vars

\* a run of handleVotingControl returns in this step
ControlCompletes ==
    \E i \in ControlSlots :
        admin.run[i].pc # "idle" /\ admin'.run[i].pc = "idle"

\* the votingStatus shown agrees with the status of the backend's elections
BackendAgrees(ad) ==
    /\ ad.votingStatus = "active"
          => \E e \in Elections : ad.backend[e] = "active"
    /\ ad.votingStatus = "paused"
          => /\ \E e \in Elections : ad.backend[e] = "paused"
             /\ \A e \in Elections : ad.backend[e] # "active"
    /\ ad.votingStatus = "stopped"
          => /\ \E e \in Elections : ad.backend[e] = "closed"
             /\ \A e \in Elections : ad.backend[e] # "active"

\* C30: when a run of handleVotingControl returns, the votingStatus shown
\* agrees with the backend: shown active, an election is active; shown
\* paused, an election is paused and none is active; shown stopped, an
\* election is closed and none is active.
C30_ControlAgreesWithBackend ==
    [][ControlCompletes => BackendAgrees(admin')]_vars

====
